---- MODULE Spec2Model ----
(***************************************************************************)
(* State-machine model of the three Discord bots of src/index.js           *)
(* (music bot, giveaway bot, poll bot).  Each bot is an independent        *)
(* program; each gets its own specification over its own variables, the    *)
(* variables of the other bots staying at their initial values.            *)
(***************************************************************************)
EXTENDS Integers, Sequences, FiniteSets, TLC

(***************************************************************************)
(* Bounds of the model.                                                    *)
(***************************************************************************)
MaxGiveaways == 1   \* giveaway messages ever sent
MaxUsers == 3       \* human users 1..MaxUsers; user 0 is the bot's own account
MaxWinners == 2     \* largest winner count a start command is given
MaxReconnectTimers == 2   \* reconnect timers pending at the same time
MaxQueue == 1       \* upcoming tracks a command or autoplay may queue
MaxFound == 6        \* tracks an autoplay search returns
MaxTimers == 2      \* inactivity timers pending or about to be scheduled
MaxMessages == 2    \* now-playing messages ever sent
MaxStopHandlers == 2    \* 'stop' handlers suspended at the same time
MaxErrorTimers == 2     \* playerError timers pending at the same time
MaxStartHandlers == 2   \* playerStart handlers suspended at the same time

VARIABLES
    \* ---- giveaway bot ----
    activeGiveaways,   \* Map messageId -> {channelId, prize, winners, timeout}
    endedGiveaways,    \* Map messageId -> {channelId, prize, winners, endMessageId}
    giveawayTimers,    \* pending expiry timers (setTimeout handles), by message id
    nextMessageId,     \* next Discord message id channel.send will return
    starting,          \* start handlers suspended at `await giveawayMessage.react`
    ending,            \* endGiveaway calls suspended at an await, by message id
    gev,               \* the last giveaway handler step: what ran, what it returned/replied
    endPassed,         \* message ids an endGiveaway call has found in activeGiveaways
    announcements,     \* message id -> GIVEAWAY ENDED messages sent for it
    \* ---- the winner draw of endGiveaway / rerollGiveaway ----
    reactors,          \* the users message.reactions.cache.get(..).users.fetch() returned
    configured,        \* giveaway.winners, the configured winner count
    drawn,             \* the last draw: which function drew, the winners, the text shown
    \* ---- music bot: Lavalink node events ----
    reconnectTimers,   \* pending setTimeout(() => shoukaku.reconnect(), delay): delay -> how many
    lev,               \* the last Lavalink handler step: event, its input, what it scheduled
    \* ---- music bot: players, 24/7 mode, inactivity teardown, buttons ----
    players,           \* client.kazagumo.players: guild -> player (exists = FALSE: none)
    twentyFourSeven,   \* client.twentyFourSeven: guilds with 24/7 mode on
    autoplay,          \* client.autoplay: guilds with autoplay on
    inactivityTimeouts,\* client.inactivityTimeouts: guild -> timer handle
    pendingTimers,     \* pending inactivity timers: handle -> guild, whether a
                       \* playerStart of the guild came after it was scheduled, and
                       \* whether the player it was set for has been destroyed
    replayTimers,      \* guilds with a pending setTimeout(() => player.pause(false), 500)
    emptyHandlers,     \* playerEmpty handlers suspended at an await
    mev,               \* the last music handler step: event, inputs, calls, reply
    \* ---- music bot: the now-playing messages ----
    nowPlayingMessages,\* client.nowPlayingMessages: the Map's entries (guild, channelId, messageId)
    startHandlers,     \* playerStart handlers suspended at an await
    nextNowPlayingId,  \* id of the next now-playing message channel.send will return
    stripped,          \* now-playing messages edited to components: []
    latestNowPlaying,  \* guild -> the now-playing message of the track that started
                       \* last (0: that track has no message)
    \* ---- poll bot ----
    pollPc,            \* where the /poll handler is: idle, react, done, replyFailed, reactFailed
    pollOptions,       \* interaction.options of the /poll being handled: position -> value
    pollChoices,       \* the handler's `choices` array
    pollFields,        \* the lines of fieldContent shown in the reply's embed
    pollReactions,     \* the reactions the bot has added to its reply, in order
    \* ---- the keep-alive HTTP servers of the three bots ----
    clientUser,        \* bot -> client.user.username ("null" before login)
    exited,            \* bots whose process has called process.exit(1)
    listening,         \* bots whose express server is listening
    served,            \* bot -> the body of its last answer to GET / (<< >>: none yet)
    \* ---- music bot: the timers of the playerError handler ----
    errorTimers,       \* pending setTimeout callbacks of playerError, with what they captured
    \* ---- music bot: the stop button ----
    stopHandlers       \* 'stop' handlers suspended at an await

lvars == <<reconnectTimers, lev>>

mvars == <<players, twentyFourSeven, autoplay, inactivityTimeouts, pendingTimers,
           replayTimers, emptyHandlers, mev>>

gvars == <<activeGiveaways, endedGiveaways, giveawayTimers, nextMessageId,
           starting, ending, gev, endPassed, announcements>>

dvars == <<reactors, configured, drawn>>

pvars == <<pollPc, pollOptions, pollChoices, pollFields, pollReactions>>

kvars == <<clientUser, exited, listening, served>>

nvars == <<nowPlayingMessages, startHandlers, nextNowPlayingId, stripped,
           latestNowPlaying>>

evars == <<errorTimers>>

svars == <<stopHandlers>>

vars == <<gvars, dvars, lvars, mvars, nvars, pvars, kvars, evars, svars>>

\* No 'stop' handler running.
SIdle == stopHandlers = {}

\* No playerError timer pending.
EIdle == errorTimers = {}

\* No now-playing message sent yet, no playerStart handler running.
NIdle ==
    /\ nowPlayingMessages = {}
    /\ startHandlers = {}
    /\ nextNowPlayingId = 1
    /\ stripped = {}
    /\ latestNowPlaying = << >>

Bots == {"music", "giveaway", "poll"}

\* The poll bot with no /poll being handled.
PIdle ==
    /\ pollPc = "idle"
    /\ pollOptions = << >>
    /\ pollChoices = << >>
    /\ pollFields = << >>
    /\ pollReactions = << >>

\* The three processes right after start: the music bot (1288) and the poll bot
\* (1850) listen at once, the giveaway bot only after login (1735-1741).
KInit ==
    /\ clientUser = [b \in Bots |-> "null"]
    /\ exited = {}
    /\ listening = {"music", "poll"}
    /\ served = [b \in Bots |-> << >>]

KIdle == KInit

(***************************************************************************)
(* Small helpers on functions used as Maps.                                *)
(***************************************************************************)
MapDelete(f, k) == [x \in (DOMAIN f) \ {k} |-> f[x]]

MapSet(f, k, v) == [x \in (DOMAIN f) \cup {k} |-> IF x = k THEN v ELSE f[x]]

Min(a, b) == IF a < b THEN a ELSE b

SeqToSet(s) == {s[i] : i \in 1..Len(s)}

\* All orders in which the members of S can be listed.
Orders(S) == {s \in [1..Cardinality(S) -> S] : SeqToSet(s) = S}

(***************************************************************************)
(* MUSIC BOT: Lavalink node events and the reconnect timers                *)
(***************************************************************************)
\* The substrings of error.message the handlers look for.
Markers == {"AbortError", "ECONNREFUSED", "Connection refused",
            "Transport failed", "Connection reset"}

Delays == {5000, 7500, 10000, 15000}

\* WebSocket close codes: normal, abnormal, Discord voice codes (>= 4000)
CloseCodes == {1000, 1006, 3999, 4000, 4006}

\* The players of the node that a 'disconnect' event can list.
NodePlayers == {"p1", "p2"}

\* delay: the delay of the timer that fired; threwBefore: an earlier call of
\* shoukaku.reconnect() threw; listed: the players handed to the 'disconnect'
\* handler; disconnected: the players whose connection.disconnect() the
\* handler called.
NoLavalinkEvent == [op |-> "none", message |-> FALSE, contains |-> {}, code |-> 0,
                    scheduled |-> << >>, reconnect |-> "none", delay |-> 0,
                    threwBefore |-> FALSE, moved |-> FALSE, listed |-> {},
                    disconnected |-> {}]

LInit ==
    /\ reconnectTimers = [d \in Delays |-> 0]
    /\ lev = NoLavalinkEvent

LIdle == LInit

PendingReconnects == reconnectTimers[5000] + reconnectTimers[7500]
                     + reconnectTimers[10000] + reconnectTimers[15000]

\* reconnectDelay of the 'error' handler for a message containing the markers
\* in `contains` (String.includes on each marker, first matching branch wins).
ReconnectDelayTransportFirst(contains) ==
    IF "AbortError" \in contains THEN 5000
    ELSE IF "Transport failed" \in contains \/ "Connection reset" \in contains THEN 7500
    ELSE IF "ECONNREFUSED" \in contains \/ "Connection refused" \in contains THEN 15000
    ELSE 10000

ReconnectDelay(contains) ==
    IF "AbortError" \in contains THEN 5000
    ELSE IF "ECONNREFUSED" \in contains \/ "Connection refused" \in contains THEN 15000
    ELSE IF "Transport failed" \in contains \/ "Connection reset" \in contains THEN 7500
    ELSE 10000

\* A reconnect is scheduled only while none is pending.
ScheduleReconnectUnlessPending(timers, d) ==
    IF \E x \in DOMAIN timers : timers[x] > 0 THEN timers
    ELSE [timers EXCEPT ![d] = @ + 1]

\* setTimeout(() => { try { shoukaku.reconnect() } catch ... }, d): one more
\* timer of delay d, whatever is pending and whatever happened before.
ScheduleReconnect(timers, d) == [timers EXCEPT ![d] = @ + 1]

\* shoukaku.on('error'): message is "error && error.message" being truthy.
LavalinkError ==
    \E message \in BOOLEAN, contains \in SUBSET Markers :
        /\ PendingReconnects < MaxReconnectTimers
        /\ ~message => contains = {}
        /\ IF message
           THEN /\ reconnectTimers' = ScheduleReconnect(reconnectTimers, ReconnectDelay(contains))
                /\ lev' = [NoLavalinkEvent EXCEPT !.op = "error", !.message = TRUE,
                             !.contains = contains,
                             !.scheduled = <<ReconnectDelay(contains)>>,
                             !.threwBefore = lev.threwBefore]
           ELSE /\ UNCHANGED reconnectTimers
                /\ lev' = [NoLavalinkEvent EXCEPT !.op = "error",
                             !.threwBefore = lev.threwBefore]
        /\ UNCHANGED <<gvars, dvars, mvars, nvars, pvars, kvars, evars, svars>>

\* The test of the 'close' handler with the voice-gateway codes let through.
ClosedAbnormallyAnyCode(code) == code # 1000

\* if (code !== 1000 && code < 4000)
ClosedAbnormally(code) == code # 1000 /\ code < 4000

\* shoukaku.on('close')
LavalinkClose ==
    \E code \in CloseCodes :
        /\ PendingReconnects < MaxReconnectTimers
        /\ IF ClosedAbnormally(code)
           THEN /\ reconnectTimers' = ScheduleReconnect(reconnectTimers, 5000)
                /\ lev' = [NoLavalinkEvent EXCEPT !.op = "close", !.code = code,
                             !.scheduled = <<5000>>, !.threwBefore = lev.threwBefore]
           ELSE /\ UNCHANGED reconnectTimers
                /\ lev' = [NoLavalinkEvent EXCEPT !.op = "close", !.code = code,
                             !.threwBefore = lev.threwBefore]
        /\ UNCHANGED <<gvars, dvars, mvars, nvars, pvars, kvars, evars, svars>>

\* shoukaku.on('disconnect'): unless the players were moved to another node,
\* players.map(player => player.connection.disconnect()) drops the voice
\* connection of every listed player and a reconnect is scheduled.
LavalinkDisconnect ==
    \E moved \in BOOLEAN, listed \in SUBSET NodePlayers :
        /\ PendingReconnects < MaxReconnectTimers
        /\ IF moved
           THEN /\ UNCHANGED reconnectTimers
                /\ lev' = [NoLavalinkEvent EXCEPT !.op = "disconnect",
                             !.moved = TRUE, !.listed = listed,
                             !.threwBefore = lev.threwBefore]
           ELSE /\ reconnectTimers' = ScheduleReconnect(reconnectTimers, 5000)
                /\ lev' = [NoLavalinkEvent EXCEPT !.op = "disconnect",
                             !.listed = listed, !.disconnected = listed,
                             !.scheduled = <<5000>>, !.threwBefore = lev.threwBefore]
        /\ UNCHANGED <<gvars, dvars, mvars, nvars, pvars, kvars, evars, svars>>

\* A reconnect timer of delay d fires: try { shoukaku.reconnect() } catch { log }.
FireReconnectTimer(d) ==
    \E outcome \in {"called", "threw"} :
        /\ reconnectTimers[d] > 0
        /\ reconnectTimers' = [reconnectTimers EXCEPT ![d] = @ - 1]
        /\ lev' = [NoLavalinkEvent EXCEPT !.op = "timer", !.reconnect = outcome,
                     !.delay = d,
                     !.threwBefore = (lev.threwBefore \/ lev.reconnect = "threw")]
        /\ UNCHANGED <<gvars, dvars, mvars, nvars, pvars, kvars, evars, svars>>

ReconnectTimerFires == \E d \in Delays : FireReconnectTimer(d)

NextLavalink ==
    \/ LavalinkError
    \/ LavalinkClose
    \/ LavalinkDisconnect
    \/ ReconnectTimerFires

(***************************************************************************)
(* MUSIC BOT: players, 24/7 mode, inactivity teardown, control buttons     *)
(***************************************************************************)
Guilds == {"g1"}
Members == {"u1", "u2"}
\* member.voice.channel against player.voiceId
VoiceStates == {"none", "same", "other"}
NoTrack == [uri |-> "none", requester |-> "none"]
Tracks == {[uri |-> "a", requester |-> "u1"], [uri |-> "b", requester |-> "u2"]}
TimerIds == 1..MaxTimers
\* channel.id of the text channel a player is bound to
TextChannels == {"t1", "t2"}
\* tracksToAdd = shuffledTracks.slice(0, 5)
AutoplayBatch == 5
ControlButtons == {"pauseresume", "skip", "replay", "shuffle", "stop"}

\* text: client.channels.cache.get(player.textId) finds the text channel
NoPlayer == [exists |-> FALSE, text |-> FALSE, playing |-> FALSE, paused |-> FALSE,
             current |-> NoTrack, queue |-> << >>]

NoMusicEvent == [op |-> "none", guild |-> "none", button |-> "none",
                 sent |-> 0, sentTo |-> "none", orphan |-> FALSE,
                 voice |-> "none", requester |-> FALSE, call |-> "none", reply |-> "none",
                 old |-> FALSE, destroyed |-> FALSE, channel |-> FALSE,
                 cut |-> FALSE, idle |-> FALSE, afterPlay |-> FALSE,
                 message |-> FALSE, contains |-> {}, recovery |-> "none",
                 outcome |-> "none", nodes |-> FALSE, created |-> FALSE,
                 text |-> FALSE, replies |-> 0, failures |-> {}, was |-> FALSE]

MInit ==
    /\ players = [g \in Guilds |-> NoPlayer]
    /\ twentyFourSeven = {}
    /\ autoplay = {}
    /\ inactivityTimeouts = << >>
    /\ pendingTimers = << >>
    /\ replayTimers = {}
    /\ emptyHandlers = {}
    /\ mev = NoMusicEvent

MIdle == MInit

TimersOf(g) == {t \in DOMAIN pendingTimers : pendingTimers[t].guild = g}

\* A handle setTimeout can return: not a pending timer, not a handle another guild stores.
FreeTimerIds(g) ==
    TimerIds \ (DOMAIN pendingTimers
                \cup {inactivityTimeouts[h] : h \in (DOMAIN inactivityTimeouts) \ {g}})

SmallestOf(S) == CHOOSE x \in S : \A y \in S : x <= y

\* All lists of length lo..hi over S.
Lists(S, lo, hi) == UNION {[1..n -> S] : n \in lo..hi}

\* player.destroy(): the playerEmpty handlers still running for the guild hold
\* a player object (obj) that is now destroyed and keeps the fields it had.
MarkStale(g) ==
    {IF h.guild = g /\ ~h.stale
     THEN [h EXCEPT !.stale = TRUE,
                    !.obj = [NoPlayer EXCEPT !.playing = players[g].playing,
                                             !.paused = players[g].paused]]
     ELSE h : h \in emptyHandlers}

\* player.destroy(): the pending playerError timers of the guild hold a player
\* object that is now destroyed.
MarkErrorTimersStale(g) ==
    {IF t.guild = g THEN [t EXCEPT !.stale = TRUE] ELSE t : t \in errorTimers}

\* The command that joins a voice channel creates the guild's player.
CreatePlayer ==
    \E g \in Guilds, text \in BOOLEAN :
        /\ ~players[g].exists
        /\ players' = [players EXCEPT ![g] = [NoPlayer EXCEPT !.exists = TRUE, !.text = text]]
        /\ mev' = [NoMusicEvent EXCEPT !.op = "createPlayer", !.guild = g]
        /\ UNCHANGED <<twentyFourSeven, autoplay, inactivityTimeouts, pendingTimers,
                       replayTimers, emptyHandlers>>
        /\ UNCHANGED <<gvars, dvars, lvars, nvars, pvars, kvars, evars, svars>>

\* A command queues a track.
AddTrack ==
    \E g \in Guilds, t \in Tracks :
        /\ players[g].exists
        /\ Len(players[g].queue) < MaxQueue
        /\ players' = [players EXCEPT ![g].queue = Append(@, t)]
        /\ mev' = [NoMusicEvent EXCEPT !.op = "addTrack", !.guild = g]
        /\ UNCHANGED <<twentyFourSeven, autoplay, inactivityTimeouts, pendingTimers,
                       replayTimers, emptyHandlers>>
        /\ UNCHANGED <<gvars, dvars, lvars, nvars, pvars, kvars, evars, svars>>

\* The songs of Tracks, each as requested by any member.
TracksAnyRequester == [uri : {t.uri : t \in Tracks}, requester : Members]

\* A command queues a track that another member may have queued too.
AddTrackAnyRequester ==
    \E g \in Guilds, t \in TracksAnyRequester :
        /\ players[g].exists
        /\ Len(players[g].queue) < MaxQueue
        /\ players' = [players EXCEPT ![g].queue = Append(@, t)]
        /\ mev' = [NoMusicEvent EXCEPT !.op = "addTrack", !.guild = g]
        /\ UNCHANGED <<twentyFourSeven, autoplay, inactivityTimeouts, pendingTimers,
                       replayTimers, emptyHandlers>>
        /\ UNCHANGED <<gvars, dvars, lvars, nvars, pvars, kvars, evars, svars>>

\* The autoplay command toggles client.autoplay for the guild.
ToggleAutoplay ==
    \E g \in Guilds :
        /\ autoplay' = IF g \in autoplay THEN autoplay \ {g} ELSE autoplay \cup {g}
        /\ mev' = [NoMusicEvent EXCEPT !.op = "toggleAutoplay", !.guild = g]
        /\ UNCHANGED <<players, twentyFourSeven, inactivityTimeouts, pendingTimers,
                       replayTimers, emptyHandlers>>
        /\ UNCHANGED <<gvars, dvars, lvars, nvars, pvars, kvars, evars, svars>>

\* playerStart: clearTimeout(inactivityTimeouts.get(guildId)); inactivityTimeouts.delete.
\* Timers of the guild that stay pending have now seen a playerStart.
ClearInactivityTimeout(g) ==
    LET cleared == IF g \in DOMAIN inactivityTimeouts THEN {inactivityTimeouts[g]} ELSE {}
    IN  /\ pendingTimers' = [t \in (DOMAIN pendingTimers) \ cleared |->
                                IF pendingTimers[t].guild = g
                                THEN [pendingTimers[t] EXCEPT !.old = TRUE]
                                ELSE pendingTimers[t]]
        /\ inactivityTimeouts' = MapDelete(inactivityTimeouts, g)

\* The library starts the next queued track (from idle, or when the current
\* track ended or was skipped) and emits playerStart.
PlayerStartOf(g) ==
    /\ players[g].exists
    /\ players[g].queue # << >>
    /\ players' = [players EXCEPT ![g].current = Head(players[g].queue),
                                  ![g].queue = Tail(players[g].queue),
                                  ![g].playing = TRUE,
                                  ![g].paused = FALSE]
    /\ ClearInactivityTimeout(g)
    /\ mev' = [NoMusicEvent EXCEPT !.op = "playerStart", !.guild = g]
    /\ UNCHANGED <<twentyFourSeven, autoplay, replayTimers, emptyHandlers>>
    /\ UNCHANGED <<gvars, dvars, lvars, pvars, kvars, evars, svars>>

\* playerStart as the players and the inactivity timers see it: the rest of the
\* handler, the now-playing message, reads the player and writes
\* nowPlayingMessages only.
PlayerStart == \E g \in Guilds : PlayerStartOf(g) /\ UNCHANGED nvars

\* playerStart with its now-playing message: with the text channel cached the
\* handler suspends at `await createMusicCard`.
PlayerStartMessage ==
    \E g \in Guilds, ch \in TextChannels :
        /\ PlayerStartOf(g)
        /\ Cardinality(startHandlers) < MaxStartHandlers
        /\ LET earlier == {IF h.guild = g THEN [h EXCEPT !.superseded = TRUE] ELSE h
                            : h \in startHandlers}
           IN  startHandlers' = IF players[g].text
                                THEN earlier \cup {[guild |-> g, pc |-> "card",
                                                    channelId |-> ch, superseded |-> FALSE]}
                                ELSE earlier
        /\ latestNowPlaying' = MapSet(latestNowPlaying, g, 0)
        /\ UNCHANGED <<nowPlayingMessages, nextNowPlayingId, stripped>>

\* Map.set that leaves the guild's earlier entry in place.
NowPlayingSetKeepsOld(map, g, entry) == map \cup {entry}

\* client.nowPlayingMessages.set(player.guildId, {channelId, messageId})
NowPlayingSet(map, g, entry) == {e \in map : e.guild # g} \cup {entry}

\* channel.send has resolved with a new message: the handler stores it.
StoreNowPlaying(h) ==
    /\ nextNowPlayingId <= MaxMessages
    /\ nowPlayingMessages' = NowPlayingSet(nowPlayingMessages, h.guild,
                                 [guild |-> h.guild, channelId |-> h.channelId,
                                  messageId |-> nextNowPlayingId])
    /\ nextNowPlayingId' = nextNowPlayingId + 1
    /\ startHandlers' = startHandlers \ {h}
    /\ latestNowPlaying' = IF h.superseded THEN latestNowPlaying
                           ELSE MapSet(latestNowPlaying, h.guild, nextNowPlayingId)
    /\ mev' = [NoMusicEvent EXCEPT !.op = "nowPlayingSent", !.guild = h.guild,
                 !.sent = nextNowPlayingId, !.sentTo = h.channelId]

\* The catch block of playerStart: the fallback embed is sent without await.
SendFallback(h, op) ==
    /\ startHandlers' = (startHandlers \ {h}) \cup {[h EXCEPT !.pc = "fallback"]}
    /\ mev' = [NoMusicEvent EXCEPT !.op = op, !.guild = h.guild]
    /\ UNCHANGED <<nowPlayingMessages, nextNowPlayingId, latestNowPlaying>>

\* createMusicCard has settled; ok: it resolved and the handler goes on to
\* `await channel.send`, otherwise the catch block runs.
PlayerStartCarded ==
    \E h \in startHandlers, ok \in BOOLEAN :
        /\ h.pc = "card"
        /\ IF ok
           THEN /\ startHandlers' = (startHandlers \ {h}) \cup {[h EXCEPT !.pc = "send"]}
                /\ mev' = [NoMusicEvent EXCEPT !.op = "nowPlayingCard", !.guild = h.guild]
                /\ UNCHANGED <<nowPlayingMessages, nextNowPlayingId, latestNowPlaying>>
           ELSE SendFallback(h, "nowPlayingCardFailed")
        /\ UNCHANGED stripped
        /\ UNCHANGED <<players, twentyFourSeven, autoplay, inactivityTimeouts, pendingTimers,
                       replayTimers, emptyHandlers>>
        /\ UNCHANGED <<gvars, dvars, lvars, pvars, kvars, evars, svars>>

\* `await channel.send` of the normal path has settled.
PlayerStartSent ==
    \E h \in startHandlers, ok \in BOOLEAN :
        /\ h.pc = "send"
        /\ IF ok THEN StoreNowPlaying(h) ELSE SendFallback(h, "nowPlayingSendFailed")
        /\ UNCHANGED stripped
        /\ UNCHANGED <<players, twentyFourSeven, autoplay, inactivityTimeouts, pendingTimers,
                       replayTimers, emptyHandlers>>
        /\ UNCHANGED <<gvars, dvars, lvars, pvars, kvars, evars, svars>>

\* channel.send of the fallback path has settled: .then stores, .catch drops.
PlayerStartFallbackSent ==
    \E h \in startHandlers, ok \in BOOLEAN :
        /\ h.pc = "fallback"
        /\ IF ok
           THEN StoreNowPlaying(h)
           ELSE /\ startHandlers' = startHandlers \ {h}
                /\ mev' = [NoMusicEvent EXCEPT !.op = "nowPlayingDropped", !.guild = h.guild]
                /\ UNCHANGED <<nowPlayingMessages, nextNowPlayingId, latestNowPlaying>>
        /\ UNCHANGED stripped
        /\ UNCHANGED <<players, twentyFourSeven, autoplay, inactivityTimeouts, pendingTimers,
                       replayTimers, emptyHandlers>>
        /\ UNCHANGED <<gvars, dvars, lvars, pvars, kvars, evars, svars>>

\* playerEnd and playerEmpty: nowPlayingMessages.get(guildId), then fetch the
\* message and edit it to components: []; ok: the channel is cached, the fetch
\* resolves and the message is editable.
StripComponents(g) ==
    /\ \E ok \in BOOLEAN :
          stripped' = IF ok
                      THEN stripped \cup {e.messageId : e \in {x \in nowPlayingMessages :
                                                                 x.guild = g}}
                      ELSE stripped
    /\ UNCHANGED <<nowPlayingMessages, startHandlers, nextNowPlayingId, latestNowPlaying>>

\* The current track has ended: the playerEnd handler.
PlayerEnd ==
    \E g \in Guilds :
        /\ players[g].exists
        /\ players[g].current # NoTrack
        /\ StripComponents(g)
        /\ mev' = [NoMusicEvent EXCEPT !.op = "playerEnd", !.guild = g]
        /\ UNCHANGED <<players, twentyFourSeven, autoplay, inactivityTimeouts, pendingTimers,
                       replayTimers, emptyHandlers>>
        /\ UNCHANGED <<gvars, dvars, lvars, pvars, kvars, evars, svars>>

\* The current track ended with nothing queued: the library emits playerEmpty.
\* The handler reads the text channel and suspends at its first await.
PlayerEmptyOf(g) ==
    /\ players[g].exists
    /\ players[g].current # NoTrack
    /\ players[g].queue = << >>
    /\ Cardinality(DOMAIN pendingTimers) + Cardinality(emptyHandlers) < MaxTimers
    /\ \A h \in emptyHandlers : h.guild # g \/ h.pc # "notify"
    /\ players' = [players EXCEPT ![g].current = NoTrack, ![g].playing = FALSE]
    /\ emptyHandlers' = emptyHandlers \cup
            {[guild |-> g, pc |-> "notify", channel |-> players[g].text, stale |-> FALSE,
              obj |-> NoPlayer]}
    /\ mev' = [NoMusicEvent EXCEPT !.op = "playerEmpty", !.guild = g]
    /\ UNCHANGED <<twentyFourSeven, autoplay, inactivityTimeouts, pendingTimers,
                   replayTimers>>
    /\ UNCHANGED <<gvars, dvars, lvars, pvars, kvars, evars, svars>>

\* playerEmpty as the players and the inactivity timers see it.
PlayerEmpty == \E g \in Guilds : PlayerEmptyOf(g) /\ UNCHANGED nvars

\* playerEmpty with the components of the now-playing message removed first.
PlayerEmptyStrips == \E g \in Guilds : PlayerEmptyOf(g) /\ StripComponents(g)

\* The handler's last tests with the 24/7 check left out.
ReturnsWithoutTimerNoChannel(h) == ~h.channel

\* if (client.twentyFourSeven.has(guildId)) return; if (channel) { setTimeout }
ReturnsWithoutTimer(h) == h.guild \in twentyFourSeven \/ ~h.channel

\* The end of the playerEmpty handler: the 24/7 check, then the inactivity timer.
ScheduleInactivity(h) ==
    IF ReturnsWithoutTimer(h)
    THEN /\ UNCHANGED <<pendingTimers, inactivityTimeouts>>
         /\ mev' = [NoMusicEvent EXCEPT !.op = "playerEmptyDone", !.guild = h.guild,
                      !.channel = h.channel, !.afterPlay = (h.pc = "play")]
    ELSE LET id == SmallestOf(FreeTimerIds(h.guild))
         IN  /\ FreeTimerIds(h.guild) # {}
             /\ pendingTimers' = MapSet(pendingTimers, id, [guild |-> h.guild, old |-> FALSE,
                                                            orphan |-> h.stale])
             /\ inactivityTimeouts' = MapSet(inactivityTimeouts, h.guild, id)
             /\ mev' = [NoMusicEvent EXCEPT !.op = "playerEmptyDone", !.guild = h.guild,
                          !.channel = h.channel, !.call = "setTimeout",
                          !.afterPlay = (h.pc = "play")]

\* The playerEmpty handler resumes after the awaits that strip the old
\* now-playing message and send 'Queue Ended'.
PlayerEmptyNotified ==
    \E h \in emptyHandlers :
        /\ h.pc = "notify"
        /\ UNCHANGED <<players, twentyFourSeven, autoplay, replayTimers>>
        /\ UNCHANGED <<gvars, dvars, lvars, nvars, pvars, kvars, evars, svars>>
        /\ IF h.guild \in autoplay
           THEN /\ \A k \in emptyHandlers : k.guild # h.guild \/ k.pc # "search"
                /\ emptyHandlers' = (emptyHandlers \ {h}) \cup {[h EXCEPT !.pc = "search"]}
                /\ UNCHANGED <<pendingTimers, inactivityTimeouts>>
                /\ mev' = [NoMusicEvent EXCEPT !.op = "playerEmptySearch", !.guild = h.guild]
           ELSE /\ emptyHandlers' = emptyHandlers \ {h}
                /\ ScheduleInactivity(h)

\* result.tracks of the autoplay search: up to MaxFound tracks, all carrying
\* the requester handed to the search.
SearchResults ==
    {[i \in 1..n |-> t] : n \in 0..MaxFound, t \in {x \in Tracks : x.uri = "a"}}

\* The autoplay branch adds every track the search returned.
TracksToAddAll(found) == found

\* tracksToAdd = shuffledTracks.slice(0, 5)
TracksToAdd(found) == SubSeq(found, 1, Min(Len(found), AutoplayBatch))

\* The autoplay branch calls play whatever the player is doing.
ShouldPlayAlways(p) == TRUE

\* if (!player.playing && !player.paused) await player.play()
ShouldPlay(p) == ~p.playing /\ ~p.paused

\* The playerEmpty handler resumes after `await client.kazagumo.search`.
\* found: the tracks returned (none when the search threw or found nothing).
\* With tracks found they are added to the queue of the handler's player
\* object (no longer the guild's player when that was destroyed meanwhile),
\* and the handler either calls play and suspends, or is done.
PlayerEmptySearched ==
    \E h \in emptyHandlers :
        /\ h.pc = "search"
        /\ UNCHANGED <<twentyFourSeven, autoplay, replayTimers>>
        /\ UNCHANGED <<gvars, dvars, lvars, nvars, pvars, kvars, evars, svars>>
        /\ \E found \in SearchResults :
              IF Len(found) > 0
              THEN LET p == IF h.stale THEN h.obj ELSE players[h.guild]
                   IN  /\ Len(players[h.guild].queue) <= MaxQueue
                       /\ players' = IF h.stale THEN players
                                     ELSE [players EXCEPT ![h.guild].queue =
                                              @ \o TracksToAdd(found)]
                       /\ UNCHANGED <<pendingTimers, inactivityTimeouts>>
                       /\ IF ShouldPlay(p)
                          THEN /\ \A k \in emptyHandlers : k.guild # h.guild \/ k.pc # "play"
                               /\ emptyHandlers' = (emptyHandlers \ {h})
                                                      \cup {[h EXCEPT !.pc = "play"]}
                               /\ mev' = [NoMusicEvent EXCEPT !.op = "playerEmptyPlay",
                                            !.guild = h.guild, !.call = "play",
                                            !.cut = (Len(found) > AutoplayBatch),
                                            !.idle = (~p.playing /\ ~p.paused)]
                          ELSE /\ emptyHandlers' = emptyHandlers \ {h}
                               /\ mev' = [NoMusicEvent EXCEPT !.op = "playerEmptyAutoplay",
                                            !.guild = h.guild, !.call = "queue.add",
                                            !.cut = (Len(found) > AutoplayBatch),
                                            !.idle = (~p.playing /\ ~p.paused)]
              ELSE /\ UNCHANGED players
                   /\ emptyHandlers' = emptyHandlers \ {h}
                   /\ ScheduleInactivity(h)

\* The playerEmpty handler resumes after `await player.play()`.  play throws
\* on a destroyed player and can throw on a live one (the node rejects the
\* request); the surrounding catch swallows the exception and the handler
\* goes on to the 24/7 check and the inactivity timer.
PlayerEmptyPlayed ==
    \E h \in emptyHandlers :
        /\ h.pc = "play"
        /\ emptyHandlers' = emptyHandlers \ {h}
        /\ UNCHANGED <<players, twentyFourSeven, autoplay, replayTimers>>
        /\ UNCHANGED <<gvars, dvars, lvars, nvars, pvars, kvars, evars, svars>>
        /\ \E threw \in IF h.stale THEN {TRUE} ELSE BOOLEAN :
              IF threw
              THEN ScheduleInactivity(h)
              ELSE /\ UNCHANGED <<pendingTimers, inactivityTimeouts>>
                   /\ mev' = [NoMusicEvent EXCEPT !.op = "playerEmptyAutoplay",
                                !.guild = h.guild]

\* The teardown condition with the 24/7 check left out.
ShouldDestroyIgnores247(g) ==
    /\ players[g].exists
    /\ (players[g].current = NoTrack \/ players[g].queue = << >>)
    /\ ~players[g].playing

\* The condition of the inactivity callback: the player exists, has no current
\* track or an empty queue, is not playing, and 24/7 mode is off.
ShouldDestroy(g) ==
    /\ players[g].exists
    /\ (players[g].current = NoTrack \/ players[g].queue = << >>)
    /\ ~players[g].playing
    /\ g \notin twentyFourSeven

\* player.destroy(): the timers still pending for the guild were set for a
\* player that is gone.
OrphanTimers(timers, g) ==
    [t \in DOMAIN timers |-> IF timers[t].guild = g
                             THEN [timers[t] EXCEPT !.orphan = TRUE]
                             ELSE timers[t]]

\* The inactivity timer t fires.
FireInactivityTimer(t) ==
    /\ t \in DOMAIN pendingTimers
    /\ LET g == pendingTimers[t].guild
       IN  IF ShouldDestroy(g)
           THEN /\ pendingTimers' = OrphanTimers(MapDelete(pendingTimers, t), g)
                /\ players' = [players EXCEPT ![g] = NoPlayer]
                /\ emptyHandlers' = MarkStale(g)
                /\ errorTimers' = MarkErrorTimersStale(g)
                /\ mev' = [NoMusicEvent EXCEPT !.op = "inactivity", !.guild = g,
                             !.old = pendingTimers[t].old,
                             !.orphan = pendingTimers[t].orphan, !.destroyed = TRUE,
                             !.call = "destroy",
                             !.reply = "Channel Left"]
           ELSE /\ pendingTimers' = MapDelete(pendingTimers, t)
                /\ UNCHANGED <<players, emptyHandlers, errorTimers>>
                /\ mev' = [NoMusicEvent EXCEPT !.op = "inactivity", !.guild = g,
                             !.old = pendingTimers[t].old,
                             !.orphan = pendingTimers[t].orphan]
    /\ UNCHANGED <<twentyFourSeven, autoplay, inactivityTimeouts, replayTimers>>
    /\ UNCHANGED <<gvars, dvars, lvars, nvars, pvars, kvars, svars>>

InactivityTimerFires == \E t \in TimerIds : FireInactivityTimer(t)

\* The pending replay timer fires: player.pause(false), which the library
\* ignores unless the player is paused and has a track.
ReplayTimerFires ==
    \E g \in replayTimers :
        /\ replayTimers' = replayTimers \ {g}
        /\ players' = IF players[g].exists /\ players[g].paused /\ players[g].current # NoTrack
                      THEN [players EXCEPT ![g].paused = FALSE, ![g].playing = TRUE]
                      ELSE players
        /\ mev' = [NoMusicEvent EXCEPT !.op = "replayTimer", !.guild = g, !.call = "pause"]
        /\ UNCHANGED <<twentyFourSeven, autoplay, inactivityTimeouts, pendingTimers,
                       emptyHandlers>>
        /\ UNCHANGED <<gvars, dvars, lvars, nvars, pvars, kvars, evars, svars>>

\* The toggle that only ever switches 24/7 mode on.
ToggledOn(flags, g) == flags \cup {g}

\* if (twentyFourSeven.has(guild.id)) delete(guild.id) else set(guild.id, ...)
Toggled(flags, g) == IF g \in flags THEN flags \ {g} ELSE flags \cup {g}

\* A press of the '247toggle' button in guild g; was: the flag before the press.
Toggle247(g, voice) ==
    LET pressed == [NoMusicEvent EXCEPT !.op = "247toggle", !.guild = g,
                      !.voice = voice, !.was = (g \in twentyFourSeven)]
    IN  /\ IF voice = "none"
           THEN /\ UNCHANGED twentyFourSeven
                /\ mev' = [pressed EXCEPT !.reply = "notInVoice"]
           ELSE /\ twentyFourSeven' = Toggled(twentyFourSeven, g)
                /\ mev' = [pressed EXCEPT !.reply = IF g \in twentyFourSeven
                                                    THEN "disabled" ELSE "enabled"]
        /\ UNCHANGED <<players, autoplay, inactivityTimeouts, pendingTimers, replayTimers,
                       emptyHandlers>>
        /\ UNCHANGED <<gvars, dvars, lvars, nvars, pvars, kvars, evars, svars>>

\* The '247toggle' button.
Button247 == \E g \in Guilds, voice \in VoiceStates : Toggle247(g, voice)

\* Guilds the bot is in without a player there.
OtherGuilds == {"g2"}

\* The '247toggle' button pressed in a guild that has no player.
Button247Elsewhere == \E g \in OtherGuilds, voice \in VoiceStates : Toggle247(g, voice)

\* The 'leave' button.
ButtonLeave ==
    \E g \in Guilds :
        /\ IF ~players[g].exists
           THEN /\ UNCHANGED <<players, emptyHandlers, pendingTimers, errorTimers>>
                /\ mev' = [NoMusicEvent EXCEPT !.op = "leave", !.guild = g,
                             !.reply = "notInVoiceChannel"]
           ELSE /\ players' = [players EXCEPT ![g] = NoPlayer]
                /\ emptyHandlers' = MarkStale(g)
                /\ errorTimers' = MarkErrorTimersStale(g)
                /\ pendingTimers' = OrphanTimers(pendingTimers, g)
                /\ mev' = [NoMusicEvent EXCEPT !.op = "leave", !.guild = g,
                             !.call = "destroy", !.destroyed = TRUE, !.reply = "left"]
        /\ UNCHANGED <<twentyFourSeven, autoplay, inactivityTimeouts, replayTimers>>
        /\ UNCHANGED <<gvars, dvars, lvars, nvars, pvars, kvars, svars>>

\* The substrings of error.message the playerException handler looks for.
ExceptionMarkers == {"destroyed", "not found", "Track stuck", "load failed",
                     "Connection", "WebSocket"}

\* needsRecovery with the connection test ahead of the destroyed test.
NeedsRecoveryConnectionFirst(message, contains) ==
    /\ message
    /\ IF "Connection" \in contains \/ "WebSocket" \in contains THEN TRUE
       ELSE IF "destroyed" \in contains \/ "not found" \in contains THEN FALSE
       ELSE "Track stuck" \in contains \/ "load failed" \in contains

\* needsRecovery of the playerException handler: message is error.message being
\* truthy, contains the markers error.message.includes() finds; the first
\* matching branch wins.
NeedsRecovery(message, contains) ==
    /\ message
    /\ IF "destroyed" \in contains \/ "not found" \in contains THEN FALSE
       ELSE IF "Track stuck" \in contains \/ "load failed" \in contains THEN TRUE
       ELSE "Connection" \in contains \/ "WebSocket" \in contains

\* player.skip().catch(...) inside try/catch: the call returns a promise that
\* resolves or rejects, or throws before it returns one.
SkipOutcomes == {"resolved", "rejected", "threw"}

\* kazagumo.on('playerException'): the error embed goes to the text channel if
\* it is cached; with needsRecovery the player is skipped when its queue is not
\* empty, destroyed when it is, and destroyed by the handler of a rejected
\* skip; a skip that throws lands in the silent catch.
PlayerException ==
    \E g \in Guilds, message \in BOOLEAN, contains \in SUBSET ExceptionMarkers,
       outcome \in SkipOutcomes :
        LET p == players[g]
            skips == NeedsRecovery(message, contains) /\ Len(p.queue) > 0
            destroys == /\ NeedsRecovery(message, contains)
                        /\ (Len(p.queue) = 0 \/ outcome = "rejected")
            ev == [NoMusicEvent EXCEPT !.op = "playerException", !.guild = g,
                     !.message = message, !.contains = contains,
                     !.channel = p.text]
        IN  /\ p.exists
            /\ ~message => contains = {}
            /\ ~skips => outcome = "resolved"
            /\ IF destroys
               THEN /\ players' = [players EXCEPT ![g] = NoPlayer]
                    /\ emptyHandlers' = MarkStale(g)
                    /\ pendingTimers' = OrphanTimers(pendingTimers, g)
                    /\ errorTimers' = MarkErrorTimersStale(g)
               ELSE UNCHANGED <<players, emptyHandlers, pendingTimers, errorTimers>>
            /\ mev' = [ev EXCEPT !.recovery = IF skips THEN "skip"
                                              ELSE IF destroys THEN "destroy"
                                              ELSE "none",
                                 !.outcome = IF skips THEN outcome ELSE "none",
                                 !.destroyed = destroys]
            /\ UNCHANGED <<twentyFourSeven, autoplay, inactivityTimeouts, replayTimers>>
            /\ UNCHANGED <<gvars, dvars, lvars, nvars, pvars, kvars, svars>>

\* The substrings of error.message the playerError handler looks for, those
\* that only select the text of the error embed reduced to one.
ErrorMarkers == {"No available nodes", "Connection", "WebSocket", "Failed to decode"}

ErrorTimerIds == 1..MaxErrorTimers

\* The reconnect test of playerError with the undecodable tracks let through.
ShouldReconnectOrDecode(message, contains) ==
    /\ message
    /\ contains \cap {"No available nodes", "Connection", "WebSocket", "Failed to decode"} # {}

\* error.message && (includes('No available nodes') || includes('Connection')
\* || includes('WebSocket'))
ShouldReconnect(message, contains) ==
    /\ message
    /\ ("No available nodes" \in contains \/ "Connection" \in contains
        \/ "WebSocket" \in contains)

\* kazagumo.on('playerError'): the error embed goes to the text channel if it
\* is cached; for a connection error a timer of 5000 ms is set, whose callback
\* holds the player object the event came with.
PlayerError ==
    \E g \in Guilds, message \in BOOLEAN, contains \in SUBSET ErrorMarkers :
        LET p == players[g]
            free == ErrorTimerIds \ {t.id : t \in errorTimers}
        IN  /\ p.exists
            /\ free # {}
            /\ ~message => contains = {}
            /\ errorTimers' =
                  IF ShouldReconnect(message, contains)
                  THEN errorTimers \cup {[id |-> SmallestOf(free), guild |-> g,
                                          stage |-> "reconnect", stale |-> FALSE,
                                          text |-> p.text]}
                  ELSE errorTimers
            /\ mev' = [NoMusicEvent EXCEPT !.op = "playerError", !.guild = g,
                         !.message = message, !.contains = contains,
                         !.channel = p.text]
            /\ UNCHANGED <<players, twentyFourSeven, autoplay, inactivityTimeouts,
                           pendingTimers, replayTimers, emptyHandlers>>
            /\ UNCHANGED <<gvars, dvars, lvars, nvars, pvars, kvars, svars>>

\* The 5000 ms timer of playerError fires. nodes: some Lavalink node has state
\* 1 (connected). With a node, player.destroy() is called on the player object
\* the event came with and the 2000 ms timer is set; on an object that is
\* already destroyed the call fails, by a rejected promise (swallowed) or by
\* throwing into the silent catch, which skips the second timer.
FireErrorTimer(t) ==
    \E nodes \in BOOLEAN, threw \in BOOLEAN :
        LET g == t.guild
            ev == [NoMusicEvent EXCEPT !.op = "errorTimer", !.guild = g,
                     !.nodes = nodes, !.old = t.stale]
            next == [t EXCEPT !.stage = "create", !.stale = TRUE]
        IN  /\ t \in errorTimers
            /\ t.stage = "reconnect"
            /\ threw => (nodes /\ t.stale)
            /\ IF ~nodes \/ threw
               THEN /\ errorTimers' = errorTimers \ {t}
                    /\ UNCHANGED <<players, emptyHandlers, pendingTimers>>
                    /\ mev' = [ev EXCEPT !.outcome = IF threw THEN "threw" ELSE "none"]
               ELSE IF t.stale
               THEN /\ errorTimers' = (errorTimers \ {t}) \cup {next}
                    /\ UNCHANGED <<players, emptyHandlers, pendingTimers>>
                    /\ mev' = [ev EXCEPT !.call = "destroy", !.outcome = "rejected"]
               ELSE /\ players' = [players EXCEPT ![g] = NoPlayer]
                    /\ emptyHandlers' = MarkStale(g)
                    /\ pendingTimers' = OrphanTimers(pendingTimers, g)
                    /\ errorTimers' = (MarkErrorTimersStale(g) \ {[t EXCEPT !.stale = TRUE]})
                                         \cup {next}
                    /\ mev' = [ev EXCEPT !.call = "destroy", !.destroyed = TRUE]
            /\ UNCHANGED <<twentyFourSeven, autoplay, inactivityTimeouts, replayTimers>>
            /\ UNCHANGED <<gvars, dvars, lvars, nvars, pvars, kvars, svars>>

ErrorTimerFires == \E t \in errorTimers : FireErrorTimer(t)

\* The 2000 ms timer fires: kazagumo.createPlayer with the guild, voice channel
\* and text channel read from the old player object. A guild that has a
\* player again keeps it; a createPlayer that throws lands in the silent catch.
FireCreateTimer(t) ==
    \E fails \in BOOLEAN :
        LET g == t.guild
            creates == ~fails /\ ~players[g].exists
        IN  /\ t \in errorTimers
            /\ t.stage = "create"
            /\ errorTimers' = errorTimers \ {t}
            /\ players' = IF creates
                          THEN [players EXCEPT ![g] = [NoPlayer EXCEPT !.exists = TRUE,
                                                                       !.text = t.text]]
                          ELSE players
            /\ mev' = [NoMusicEvent EXCEPT !.op = "createTimer", !.guild = g,
                         !.text = t.text,
                         !.call = "createPlayer", !.created = creates]
            /\ UNCHANGED <<twentyFourSeven, autoplay, inactivityTimeouts, pendingTimers,
                           replayTimers, emptyHandlers>>
            /\ UNCHANGED <<gvars, dvars, lvars, nvars, pvars, kvars, svars>>

CreateTimerFires == \E t \in errorTimers : FireCreateTimer(t)

\* The voice-channel gate of the music control buttons: a member who is not in
\* the player's voice channel is turned away, except on the stop button.
VoiceGate(button, voice) == voice # "same" /\ button # "stop"

\* The requester check of the skip button.
SkipRefused(p, member) == p.current # NoTrack /\ p.current.requester # member

\* All orders the shuffle can leave the current track and the queue in.
ShuffleOrders(p) ==
    LET all == <<p.current>> \o p.queue
    IN  {[i \in 1..Len(all) |-> all[f[i]]] : f \in Orders(1..Len(all))}

\* What a music control button can do once its gates are passed: the player
\* after the handler, the library call made, the reply, and whether the
\* handler leaves a replay timer behind; one outcome per result of the shuffle.
ControlEffects(p, button, member) ==
    LET refuse(reply) == {[player |-> p, call |-> "none", reply |-> reply, timer |-> FALSE]}
    IN  CASE button = "pauseresume" -> refuse("logicUpdated")
          [] button = "skip" ->
                IF SkipRefused(p, member)
                THEN refuse("notRequester")
                ELSE {[player |-> p, call |-> "skip", reply |-> "skipped", timer |-> FALSE]}
          [] button = "replay" ->
                IF p.current = NoTrack THEN refuse("noTrack")
                ELSE IF p.current.requester # member THEN refuse("notRequester")
                ELSE {[player |-> [p EXCEPT !.paused = TRUE, !.playing = FALSE],
                       call |-> "pause", reply |-> "replayed", timer |-> TRUE]}
          [] button = "shuffle" ->
                IF p.current = NoTrack THEN refuse("noTrack")
                ELSE IF p.current.requester # member THEN refuse("notRequester")
                ELSE IF Len(p.queue) = 0 THEN refuse("nothingToShuffle")
                ELSE {IF order[1].uri # p.current.uri
                      THEN [player |-> [p EXCEPT !.queue = order],
                            call |-> "skip", reply |-> "shuffled", timer |-> FALSE]
                      ELSE [player |-> [p EXCEPT !.queue = Tail(order)],
                            call |-> "queue.add", reply |-> "shuffled", timer |-> FALSE]
                      : order \in ShuffleOrders(p)}
          [] button = "stop" ->
                IF p.current = NoTrack THEN refuse("noTrack")
                ELSE IF p.current.requester # member THEN refuse("notRequester")
                ELSE {[player |-> [p EXCEPT !.queue = << >>],
                       call |-> "queue.clear", reply |-> "stopped", timer |-> FALSE]}

\* The awaits of the 'stop' case a failure can come from.
StopAwaits == {"send", "signal", "disconnect"}

\* The 'stop' case gives up when the queue-end message cannot be sent.
ContinuesAfterSendOnlyIfSent(failed) == ~failed

\* try { await channel.send(queueEndEmbed) } catch (messageError) { log }: the
\* handler goes on to clear the queue whether or not the send failed.
ContinuesAfterSend(failed) == TRUE

\* A press of the stop button, as the handler runs it: the player lookup and
\* the requester check, then `await channel.send` of the queue-end message
\* when the text channel is cached; without it the handler is at
\* player.queue.clear() at once.
StopPress ==
    \E g \in Guilds, member \in Members, voice \in VoiceStates :
        LET p == players[g]
            pressed == [NoMusicEvent EXCEPT !.op = "stopPress", !.guild = g,
                          !.button = "stop", !.voice = voice,
                          !.requester = (p.exists /\ p.current # NoTrack
                                         /\ p.current.requester = member)]
            refuse(reply) == /\ mev' = [pressed EXCEPT !.reply = reply, !.replies = 1]
                             /\ UNCHANGED <<players, stopHandlers>>
        IN  /\ Cardinality(stopHandlers) < MaxStopHandlers
            /\ \A h \in stopHandlers : h.guild # g \/ h.pc # "send"
            /\ IF ~p.exists THEN refuse("noPlayer")
               ELSE IF p.current = NoTrack THEN refuse("noTrack")
               ELSE IF p.current.requester # member THEN refuse("notRequester")
               ELSE IF p.text
               THEN /\ stopHandlers' = stopHandlers \cup
                           {[guild |-> g, pc |-> "send", failures |-> {}]}
                    /\ mev' = pressed
                    /\ UNCHANGED players
               ELSE /\ \A h \in stopHandlers : h.guild # g \/ h.pc # "signal"
                    /\ stopHandlers' = stopHandlers \cup
                           {[guild |-> g, pc |-> "signal", failures |-> {}]}
                    /\ players' = [players EXCEPT ![g].queue = << >>]
                    /\ mev' = [pressed EXCEPT !.call = "queue.clear"]
            /\ UNCHANGED <<twentyFourSeven, autoplay, inactivityTimeouts, pendingTimers,
                           replayTimers, emptyHandlers>>
            /\ UNCHANGED <<gvars, dvars, lvars, nvars, pvars, kvars, evars>>

\* The handler resumes after `await channel.send`: a failure is logged, then
\* player.queue.clear() and `await player.node.send({ op: 'stop' })`.
StopSent ==
    \E h \in stopHandlers, failed \in BOOLEAN :
        LET fs == IF failed THEN h.failures \cup {"send"} ELSE h.failures
        IN  /\ h.pc = "send"
            /\ \A k \in stopHandlers : k.guild # h.guild \/ k.pc # "signal"
            /\ IF ContinuesAfterSend(failed)
               THEN /\ stopHandlers' = (stopHandlers \ {h}) \cup
                           {[h EXCEPT !.pc = "signal", !.failures = fs]}
                    /\ players' = [players EXCEPT ![h.guild].queue = << >>]
                    /\ mev' = [NoMusicEvent EXCEPT !.op = "stopSent", !.guild = h.guild,
                                 !.call = "queue.clear", !.failures = fs]
               ELSE /\ stopHandlers' = stopHandlers \ {h}
                    /\ UNCHANGED players
                    /\ mev' = [NoMusicEvent EXCEPT !.op = "stopReply", !.guild = h.guild,
                                 !.reply = "stopped", !.replies = 1, !.failures = fs]
            /\ UNCHANGED <<twentyFourSeven, autoplay, inactivityTimeouts, pendingTimers,
                           replayTimers, emptyHandlers>>
            /\ UNCHANGED <<gvars, dvars, lvars, nvars, pvars, kvars, evars>>

\* The handler resumes after the stop signal to the node: a failure is logged,
\* then `await guild.members.me.voice.disconnect()`.
StopSignalled ==
    \E h \in stopHandlers, failed \in BOOLEAN :
        LET fs == IF failed THEN h.failures \cup {"signal"} ELSE h.failures
        IN  /\ h.pc = "signal"
            /\ \A k \in stopHandlers : k.guild # h.guild \/ k.pc # "disconnect"
            /\ stopHandlers' = (stopHandlers \ {h}) \cup
                   {[h EXCEPT !.pc = "disconnect", !.failures = fs]}
            /\ mev' = [NoMusicEvent EXCEPT !.op = "stopSignalled", !.guild = h.guild,
                         !.failures = fs]
            /\ UNCHANGED <<players, twentyFourSeven, autoplay, inactivityTimeouts,
                           pendingTimers, replayTimers, emptyHandlers>>
            /\ UNCHANGED <<gvars, dvars, lvars, nvars, pvars, kvars, evars>>

\* The handler resumes after the voice disconnect: a failure is logged, then
\* the one interaction.reply of the try block.
StopDisconnected ==
    \E h \in stopHandlers, failed \in BOOLEAN :
        LET fs == IF failed THEN h.failures \cup {"disconnect"} ELSE h.failures
        IN  /\ h.pc = "disconnect"
            /\ stopHandlers' = stopHandlers \ {h}
            /\ mev' = [NoMusicEvent EXCEPT !.op = "stopReply", !.guild = h.guild,
                         !.reply = "stopped", !.replies = 1, !.failures = fs]
            /\ UNCHANGED <<players, twentyFourSeven, autoplay, inactivityTimeouts,
                           pendingTimers, replayTimers, emptyHandlers>>
            /\ UNCHANGED <<gvars, dvars, lvars, nvars, pvars, kvars, evars>>

\* A press of `button` in guild g by `member`, whose voice state is `voice`.
Press(g, button, member, voice) ==
    LET p == players[g]
        pressed == [NoMusicEvent EXCEPT !.op = "control", !.guild = g,
                      !.button = button, !.voice = voice,
                      !.requester = (p.exists /\ p.current # NoTrack
                                     /\ p.current.requester = member)]
    IN  /\ Len(p.queue) <= MaxQueue
        /\ UNCHANGED <<twentyFourSeven, autoplay, inactivityTimeouts, pendingTimers,
                       emptyHandlers>>
        /\ UNCHANGED <<gvars, dvars, lvars, nvars, pvars, kvars, evars, svars>>
        /\ IF ~p.exists
           THEN /\ mev' = [pressed EXCEPT !.reply = "noPlayer"]
                /\ UNCHANGED <<players, replayTimers>>
           ELSE IF VoiceGate(button, voice)
           THEN /\ mev' = [pressed EXCEPT !.reply = "notInVoice"]
                /\ UNCHANGED <<players, replayTimers>>
           ELSE \E e \in ControlEffects(p, button, member) :
                    /\ players' = [players EXCEPT ![g] = e.player]
                    /\ replayTimers' = IF e.timer THEN replayTimers \cup {g}
                                       ELSE replayTimers
                    /\ mev' = [pressed EXCEPT !.call = e.call, !.reply = e.reply]

ControlButton ==
    \E g \in Guilds, button \in ControlButtons, member \in Members, voice \in VoiceStates :
        Press(g, button, member, voice)

\* The checks of /resume with the player looked up before the member's voice channel.
ResumeReplyPlayerFirst(p, voice) ==
    IF ~p.exists THEN "noPlayer"
    ELSE IF voice = "none" THEN "notInVoice"
    ELSE IF voice # "same" THEN "notSameVoice"
    ELSE IF ~p.paused THEN "notPaused"
    ELSE "resumed"

\* The checks of the /resume command in their order, and the reply each gives.
ResumeReply(p, voice) ==
    IF voice = "none" THEN "notInVoice"
    ELSE IF ~p.exists THEN "noPlayer"
    ELSE IF voice # "same" THEN "notSameVoice"
    ELSE IF ~p.paused THEN "notPaused"
    ELSE "resumed"

\* The /resume command; ok: `await player.pause(false)` resolves.
ResumeCommand ==
    \E g \in Guilds, voice \in VoiceStates, ok \in BOOLEAN :
        LET p == players[g]
            reply == ResumeReply(p, voice)
            ran == [NoMusicEvent EXCEPT !.op = "resume", !.guild = g, !.voice = voice]
        IN  /\ Len(p.queue) <= MaxQueue
            /\ IF reply # "resumed"
               THEN /\ mev' = [ran EXCEPT !.reply = reply]
                    /\ UNCHANGED players
               ELSE IF ok
               THEN /\ players' = [players EXCEPT ![g].paused = FALSE, ![g].playing = TRUE]
                    /\ mev' = [ran EXCEPT !.call = "pause", !.reply = "resumed"]
               ELSE /\ mev' = [ran EXCEPT !.call = "pause"]
                    /\ UNCHANGED players
            /\ UNCHANGED <<twentyFourSeven, autoplay, inactivityTimeouts, pendingTimers,
                           replayTimers, emptyHandlers>>
            /\ UNCHANGED <<gvars, dvars, lvars, nvars, pvars, kvars, evars, svars>>

(***************************************************************************)
(* GIVEAWAY BOT                                                            *)
(***************************************************************************)
MessageIds == 1..MaxGiveaways
Channels == {"c1", "c2"}
Prizes == {"nitro", "skin"}
Users == 0..MaxUsers
\* user.bot: the giveaway bot reacts to its own message (giveawayMessage.react)
IsBot(u) == u = 0
\* getInteger('winners') has no minimum: any integer can be configured
WinnerCounts == (0 - 1)..MaxWinners
Forms == {"prefix", "slash"}

NoEvent == [op |-> "none", id |-> 0, ret |-> "none", reply |-> "none"]
NoDraw == [by |-> "none", winners |-> << >>, text |-> "none"]

DIdle ==
    /\ reactors = {}
    /\ configured = 0
    /\ drawn = NoDraw

\* The winners validation of the two start commands: the prefix form rejects
\* isNaN(winners) || winners < 1, the slash form takes getInteger('winners') as it is.
ValidWinners(form, w) == ~(form = "prefix" /\ w < 1)

GInit ==
    /\ activeGiveaways = << >>
    /\ endedGiveaways = << >>
    /\ giveawayTimers = {}
    /\ nextMessageId = 1
    /\ starting = {}
    /\ ending = << >>
    /\ gev = NoEvent
    /\ endPassed = {}
    /\ announcements = << >>

\* participants.splice(winnerIndex, 1), with winnerIndex counted from 1
Splice(parts, k) == [i \in 1..(Len(parts) - 1) |-> IF i < k THEN parts[i] ELSE parts[i + 1]]

\* reactions.filter(user => !user.bot).map(user => user.id), in any fetch order
Participants(fetched) == Orders({u \in fetched : ~IsBot(u)})

\* The winner loop: every list of winners the loop can produce from loop state
\* (participants, i), one per sequence of values of Math.random().
RECURSIVE PickWinners(_, _, _)
PickWinners(parts, w, i) ==
    IF i < w /\ Len(parts) > 0
    THEN UNION { { <<parts[k]>> \o rest : rest \in PickWinners(Splice(parts, k), w, i + 1) }
                 : k \in 1..Len(parts) }
    ELSE { << >> }

\* endGiveaway without its clearTimeout(giveaway.timeout).
EndGiveawayBeginNoClear(m, ch, caller, pending) ==
    /\ m \in DOMAIN activeGiveaways
    /\ giveawayTimers' = pending
    /\ activeGiveaways' = MapDelete(activeGiveaways, m)
    /\ endPassed' = endPassed \cup {m}
    /\ ending' = MapSet(ending, m, [channel |-> ch, giveaway |-> activeGiveaways[m],
                                    caller |-> caller, pc |-> "fetch"])

\* endGiveaway without its activeGiveaways.delete(messageId).
EndGiveawayBeginKeepsEntry(m, ch, caller, pending) ==
    /\ m \in DOMAIN activeGiveaways
    /\ m \notin DOMAIN ending
    /\ giveawayTimers' = pending \ {activeGiveaways[m].timeout}
    /\ UNCHANGED activeGiveaways
    /\ endPassed' = endPassed \cup {m}
    /\ ending' = MapSet(ending, m, [channel |-> ch, giveaway |-> activeGiveaways[m],
                                    caller |-> caller, pc |-> "fetch"])

\* endGiveaway, synchronous head: has-check, clearTimeout, delete.
\* Leaves the call suspended at `await channel.messages.fetch`.
\* pending: the timers pending when the call is made.
EndGiveawayBegin(m, ch, caller, pending) ==
    /\ m \in DOMAIN activeGiveaways
    /\ giveawayTimers' = pending \ {activeGiveaways[m].timeout}
    /\ activeGiveaways' = MapDelete(activeGiveaways, m)
    /\ endPassed' = endPassed \cup {m}
    /\ ending' = MapSet(ending, m, [channel |-> ch, giveaway |-> activeGiveaways[m],
                                    caller |-> caller, pc |-> "fetch"])

\* The permission check with every caller let through.
PermittedAnyone(perm) == TRUE

\* member.permissions.has('ManageMessages') / memberPermissions.has('ManageMessages')
Permitted(perm) == perm

\* The start command (prefix and slash form) up to `await channel.send`.
\* perm: the caller has Manage Messages; the other refusals are what the
\* prefix form finds missing among its arguments.
StartCommandBy(perm) ==
    /\ nextMessageId <= MaxGiveaways
    /\ UNCHANGED <<dvars, lvars, mvars, nvars, pvars, kvars, evars, svars>>
    /\ UNCHANGED <<activeGiveaways, endedGiveaways, giveawayTimers, ending>>
    /\ UNCHANGED <<endPassed, announcements>>
    /\ \/ /\ ~Permitted(perm)
          /\ gev' = [op |-> "start", id |-> 0, ret |-> "none", reply |-> "needPermission"]
          /\ UNCHANGED <<nextMessageId, starting>>
       \/ \E reply \in {"noChannel", "noDuration", "noPrize"} :
            /\ Permitted(perm)
            /\ gev' = [op |-> "start", id |-> 0, ret |-> "none", reply |-> reply]
            /\ UNCHANGED <<nextMessageId, starting>>
       \/ \E form \in Forms, ch \in Channels, prize \in Prizes, w \in WinnerCounts,
             sendOk \in BOOLEAN :
            /\ Permitted(perm)
            /\ IF ~ValidWinners(form, w)
               THEN /\ gev' = [op |-> "start", id |-> 0, ret |-> "none",
                               reply |-> "invalidWinners"]
                    /\ UNCHANGED <<nextMessageId, starting>>
               ELSE IF ~sendOk
               THEN /\ gev' = [op |-> "start", id |-> 0, ret |-> "throw", reply |-> "none"]
                    /\ UNCHANGED <<nextMessageId, starting>>
               ELSE /\ gev' = [op |-> "startSend", id |-> nextMessageId, ret |-> "none",
                               reply |-> "none"]
                    /\ nextMessageId' = nextMessageId + 1
                    /\ starting' = starting \cup {[id |-> nextMessageId, channelId |-> ch,
                                                   prize |-> prize, winners |-> w]}

StartCommand == \E perm \in BOOLEAN : StartCommandBy(perm)

\* The start command storing a timer it has not set.
SetExpiryTimerNot(pending, id) == pending

\* const timeout = setTimeout(..., ms(duration)): the timers pending afterwards
SetExpiryTimer(pending, id) == pending \cup {id}

\* The start command after `await giveawayMessage.react`: setTimeout and
\* activeGiveaways.set run in one synchronous stretch, then the reply.
StartRegister ==
    \E s \in starting, reactOk \in BOOLEAN :
        /\ starting' = starting \ {s}
        /\ UNCHANGED <<dvars, lvars, mvars, nvars, pvars, kvars, evars, svars>>
        /\ UNCHANGED <<endedGiveaways, nextMessageId, ending, endPassed, announcements>>
        /\ IF reactOk
           THEN /\ giveawayTimers' = SetExpiryTimer(giveawayTimers, s.id)
                /\ activeGiveaways' = MapSet(activeGiveaways, s.id,
                        [channelId |-> s.channelId, prize |-> s.prize,
                         winners |-> s.winners, timeout |-> s.id])
                /\ gev' = [op |-> "start", id |-> s.id, ret |-> "none", reply |-> "started"]
           ELSE /\ UNCHANGED <<giveawayTimers, activeGiveaways>>
                /\ gev' = [op |-> "start", id |-> s.id, ret |-> "throw", reply |-> "none"]

\* The expiry timer fires: its callback calls endGiveaway(giveawayMessage.id, channel).
FireExpiryTimer(m) ==
    /\ m \in giveawayTimers
    /\ UNCHANGED <<dvars, lvars, mvars, nvars, pvars, kvars, evars, svars>>
    /\ UNCHANGED <<endedGiveaways, nextMessageId, starting, announcements>>
    /\ IF m \in DOMAIN activeGiveaways
       THEN /\ EndGiveawayBegin(m, activeGiveaways[m].channelId, "timer", giveawayTimers \ {m})
            /\ gev' = [op |-> "timer", id |-> m, ret |-> "none", reply |-> "none"]
       ELSE /\ giveawayTimers' = giveawayTimers \ {m}
            /\ UNCHANGED <<activeGiveaways, ending, endPassed>>
            /\ gev' = [op |-> "timer", id |-> m, ret |-> "false", reply |-> "none"]

ExpiryTimerFires == \E m \in MessageIds : FireExpiryTimer(m)

\* The end command (prefix and slash form) up to the first await inside endGiveaway.
EndCommandBy(perm) ==
    /\ UNCHANGED <<dvars, lvars, mvars, nvars, pvars, kvars, evars, svars>>
    /\ UNCHANGED <<endedGiveaways, nextMessageId, starting, announcements>>
    /\ \/ /\ ~Permitted(perm)
          /\ gev' = [op |-> "end", id |-> 0, ret |-> "none", reply |-> "needPermission"]
          /\ UNCHANGED <<activeGiveaways, giveawayTimers, ending, endPassed>>
       \/ /\ Permitted(perm)
          /\ gev' = [op |-> "end", id |-> 0, ret |-> "none", reply |-> "noMessageId"]
          /\ UNCHANGED <<activeGiveaways, giveawayTimers, ending, endPassed>>
       \/ \E m \in MessageIds, ch \in Channels :
            /\ Permitted(perm)
            /\ IF m \in DOMAIN activeGiveaways
               THEN /\ EndGiveawayBegin(m, ch, "command", giveawayTimers)
                    /\ gev' = [op |-> "end", id |-> m, ret |-> "none", reply |-> "none"]
               ELSE /\ gev' = [op |-> "end", id |-> m, ret |-> "false",
                               reply |-> "notActive"]
                    /\ UNCHANGED <<activeGiveaways, giveawayTimers, ending, endPassed>>

EndCommand == \E perm \in BOOLEAN : EndCommandBy(perm)

\* endGiveaway after `await channel.messages.fetch(messageId).catch(() => null)`.
\* The message is found only in the channel it was sent to, and only if it still exists.
EndGiveawayFetched ==
    \E m \in DOMAIN ending, exists \in BOOLEAN :
        LET c == ending[m]
            message == exists /\ c.channel = c.giveaway.channelId
        IN  /\ c.pc = "fetch"
            /\ UNCHANGED <<dvars, lvars, mvars, nvars, pvars, kvars, evars, svars>>
            /\ UNCHANGED <<activeGiveaways, endedGiveaways, giveawayTimers, nextMessageId,
                           starting, endPassed, announcements>>
            /\ IF ~message
               THEN /\ ending' = MapDelete(ending, m)
                    /\ gev' = [op |-> "endFetched", id |-> m, ret |-> "false",
                               reply |-> IF c.caller = "command" THEN "notActive" ELSE "none"]
               ELSE /\ ending' = [ending EXCEPT ![m].pc = "draw"]
                    /\ gev' = [op |-> "endFetched", id |-> m, ret |-> "none", reply |-> "none"]

\* endGiveaway from the reaction fetch to the end: draw the winners (DrawEnd
\* below), send the GIVEAWAY ENDED message, record the giveaway in
\* endedGiveaways, return true.  A missing reaction (reactions.cache.get
\* undefined) or a failed send throws and the call ends there.
EndGiveawayDraw ==
    \E m \in DOMAIN ending, ok \in BOOLEAN :
        LET c == ending[m]
        IN  /\ c.pc = "draw"
            /\ ending' = MapDelete(ending, m)
            /\ UNCHANGED <<activeGiveaways, giveawayTimers, nextMessageId, starting, endPassed>>
            /\ UNCHANGED <<dvars, lvars, mvars, nvars, pvars, kvars, evars, svars>>
            /\ IF ok
               THEN /\ announcements' = MapSet(announcements, m,
                            IF m \in DOMAIN announcements THEN announcements[m] + 1 ELSE 1)
                    /\ endedGiveaways' = MapSet(endedGiveaways, m,
                            [channelId |-> c.channel, prize |-> c.giveaway.prize,
                             winners |-> c.giveaway.winners, endMessageId |-> m])
                    /\ gev' = [op |-> "endDraw", id |-> m, ret |-> "true",
                               reply |-> IF c.caller = "command" THEN "ended" ELSE "none"]
               ELSE /\ UNCHANGED <<endedGiveaways, announcements>>
                    /\ gev' = [op |-> "endDraw", id |-> m, ret |-> "throw", reply |-> "none"]

\* rerollGiveaway looking the message id up among the active giveaways too.
RerollFoundAmongAll(m, exists) ==
    m \in (DOMAIN endedGiveaways) \cup (DOMAIN activeGiveaways) /\ exists

\* rerollGiveaway goes on to the draw: endedGiveaways.has(messageId), and the
\* original message is fetched (exists).
RerollFound(m, exists) == m \in DOMAIN endedGiveaways /\ exists

\* The reroll command (prefix and slash form) with rerollGiveaway (its draw is
\* DrawReroll below).  It changes no map, so its awaits are not split into steps.
RerollCommandBy(perm) ==
    /\ UNCHANGED <<activeGiveaways, endedGiveaways, giveawayTimers, nextMessageId,
                   starting, ending, endPassed, announcements>>
    /\ UNCHANGED <<dvars, lvars, mvars, nvars, pvars, kvars, evars, svars>>
    /\ \/ /\ ~Permitted(perm)
          /\ gev' = [op |-> "reroll", id |-> 0, ret |-> "none", reply |-> "needPermission"]
       \/ /\ Permitted(perm)
          /\ gev' = [op |-> "reroll", id |-> 0, ret |-> "none", reply |-> "noMessageId"]
       \/ \E m \in MessageIds, exists \in BOOLEAN, ok \in BOOLEAN :
            /\ Permitted(perm)
            /\ IF ~RerollFound(m, exists)
               THEN gev' = [op |-> "reroll", id |-> m, ret |-> "null", reply |-> "notEnded"]
               ELSE IF ~ok
               THEN gev' = [op |-> "reroll", id |-> m, ret |-> "throw", reply |-> "none"]
               ELSE gev' = [op |-> "reroll", id |-> m, ret |-> "result",
                            reply |-> "rerolled"]

RerollCommand == \E perm \in BOOLEAN : RerollCommandBy(perm)

NextGiveaway ==
    \/ StartCommand
    \/ StartRegister
    \/ ExpiryTimerFires
    \/ EndCommand
    \/ EndGiveawayFetched
    \/ EndGiveawayDraw
    \/ RerollCommand

GIdle == GInit

InitGiveaway == GInit /\ DIdle /\ LIdle /\ MIdle /\ NIdle /\ PIdle /\ KIdle /\ EIdle /\ SIdle

SpecGiveaway == InitGiveaway /\ [][NextGiveaway]_vars

\* C1: a started giveaway has an entry in activeGiveaways with its expiry timer
\* pending; right after its expiry timer has fired, and right after the end
\* command has called endGiveaway with its message id, the id is not in
\* activeGiveaways and its expiry timer is not pending.
C1_EntryAddedThenRemoved ==
    /\ gev.reply = "started" =>
          /\ gev.id \in DOMAIN activeGiveaways
          /\ activeGiveaways[gev.id].timeout \in giveawayTimers
    /\ (gev.op \in {"timer", "end"} /\ gev.id \in MessageIds) =>
          /\ gev.id \notin DOMAIN activeGiveaways
          /\ gev.id \notin giveawayTimers

\* C13: a reroll returns a result only for a message id in endedGiveaways;
\* for an id that is not there (still active, or unknown) it returns null and
\* the reply is 'Could not find an ended giveaway with that ID'; no reroll
\* changes activeGiveaways or endedGiveaways.
C13_RerollOnlyEnded ==
    [][gev'.op = "reroll" =>
          /\ activeGiveaways' = activeGiveaways
          /\ endedGiveaways' = endedGiveaways
          /\ gev'.ret = "result" => gev'.id \in DOMAIN endedGiveaways
          /\ (gev'.id \in MessageIds /\ gev'.id \notin DOMAIN endedGiveaways) =>
                (gev'.ret = "null" /\ gev'.reply = "notEnded")]_vars

\* C13 witness: a reroll of a giveaway that is still active has returned null.
C13_Witness ==
    /\ gev.op = "reroll"
    /\ gev.id \in DOMAIN activeGiveaways
    /\ gev.ret = "null"
    /\ gev.reply = "notEnded"

\* C14: endGiveaway returns false, and the end command replies 'Could not find
\* an active giveaway with that ID', only in a call that found no entry for
\* the id in activeGiveaways: not in a call that removed an entry and cleared
\* its timer (the calls recorded in `ending`), and the returning step changes
\* no map and no timer.
C14_FalseMeansUntouched ==
    [][(gev'.op \in {"end", "endFetched"}
          /\ (gev'.ret = "false" \/ gev'.reply = "notActive")) =>
          /\ gev'.op = "end" => gev'.id \notin DOMAIN activeGiveaways
          /\ gev'.op = "endFetched" => gev'.id \notin DOMAIN ending
          /\ activeGiveaways' = activeGiveaways
          /\ endedGiveaways' = endedGiveaways
          /\ giveawayTimers' = giveawayTimers]_vars

\* C15: a start, end or reroll command from a caller without Manage Messages
\* is answered with the permission refusal, changes neither map nor the
\* pending timers, sends no giveaway message (nextMessageId, starting) and
\* starts no endGiveaway call (ending).
C15_OnlyWithPermission ==
    [][(StartCommandBy(FALSE) \/ EndCommandBy(FALSE) \/ RerollCommandBy(FALSE)) =>
          /\ gev'.reply = "needPermission"
          /\ UNCHANGED <<activeGiveaways, endedGiveaways, giveawayTimers, nextMessageId,
                         starting, ending>>]_vars

\* C15 witness: the end command has refused a caller without Manage Messages
\* while a giveaway is active.
C15_Witness ==
    /\ gev.op = "end"
    /\ gev.reply = "needPermission"
    /\ activeGiveaways # << >>

\* A pending expiry timer fires, and an endGiveaway call suspended at an await
\* is resumed.
SpecGiveawayLive ==
    /\ InitGiveaway
    /\ [][NextGiveaway]_vars
    /\ \A m \in MessageIds : WF_vars(FireExpiryTimer(m))
    /\ WF_vars(EndGiveawayFetched)
    /\ WF_vars(EndGiveawayDraw)

\* C21: no giveaway has its GIVEAWAY ENDED message sent twice, the step that
\* sends it is the only one that writes its endedGiveaways entry and finds no
\* entry there, and once an endGiveaway call has found the giveaway in
\* activeGiveaways every later call for its id, from the timer or the end
\* command, returns false.
C21_EndedAtMostOnce ==
    /\ [](\A m \in DOMAIN announcements : announcements[m] <= 1)
    /\ [](DOMAIN announcements = DOMAIN endedGiveaways)
    /\ [][\A m \in DOMAIN endedGiveaways' :
            (m \notin DOMAIN endedGiveaways \/ endedGiveaways'[m] # endedGiveaways[m]) =>
                (m \notin DOMAIN endedGiveaways /\ m \notin DOMAIN announcements
                 /\ gev'.op = "endDraw")]_vars
    /\ [][(gev'.op \in {"end", "timer"} /\ gev'.id \in endPassed) =>
            gev'.ret = "false"]_vars

\* C21 witness: the end command is called again for a giveaway that has been
\* ended and announced, and gets false.
C21_Witness ==
    /\ gev.op = "end"
    /\ gev.ret = "false"
    /\ gev.id \in DOMAIN endedGiveaways
    /\ gev.id \in DOMAIN announcements

\* C22: every giveaway an endGiveaway call has removed from activeGiveaways is
\* eventually in endedGiveaways under the same id, with its prize and winner count.
C22_RemovedIsRecorded ==
    \A m \in MessageIds :
        (m \in DOMAIN ending) ~>
            (/\ m \in DOMAIN endedGiveaways
             /\ m \in DOMAIN ending =>
                   (/\ endedGiveaways[m].prize = ending[m].giveaway.prize
                    /\ endedGiveaways[m].winners = ending[m].giveaway.winners))

\* The timer of an active giveaway is pending, and no other giveaway stores it.
TimerOfEachEntry ==
    \A m \in DOMAIN activeGiveaways :
        /\ activeGiveaways[m].timeout \in giveawayTimers
        /\ \A k \in DOMAIN activeGiveaways :
              activeGiveaways[k].timeout = activeGiveaways[m].timeout => k = m

\* Every pending expiry timer is the timer of an active giveaway.
EntryOfEachTimer ==
    \A t \in giveawayTimers : \E m \in DOMAIN activeGiveaways : activeGiveaways[m].timeout = t

\* C23: each entry of activeGiveaways has exactly one pending expiry timer,
\* the one it stores, every pending expiry timer is stored in an entry, and
\* every active giveaway eventually leaves activeGiveaways through an
\* endGiveaway call, whether or not the end command is used.
C23_TimerPerActiveGiveaway ==
    /\ [](TimerOfEachEntry /\ EntryOfEachTimer)
    /\ \A m \in MessageIds :
          (m \in DOMAIN activeGiveaways) ~> (m \notin DOMAIN activeGiveaways /\ m \in endPassed)

\* C23 witness: the expiry timer of an active giveaway has fired and called endGiveaway.
C23_Witness ==
    /\ gev.op = "timer"
    /\ gev.ret = "none"
    /\ gev.id \in DOMAIN ending
    /\ ending[gev.id].caller = "timer"
    /\ gev.id \notin giveawayTimers

\* C28: every entry of activeGiveaways and of endedGiveaways has a winner
\* count of at least 1, and no start command given a winner count below 1
\* sends a giveaway message.
C28_WinnerCountAtLeastOne ==
    /\ \A m \in DOMAIN activeGiveaways : activeGiveaways[m].winners >= 1
    /\ \A m \in DOMAIN endedGiveaways : endedGiveaways[m].winners >= 1
    /\ \A s \in starting : s.winners >= 1

\* C29: no message id is in activeGiveaways and in endedGiveaways at once, and
\* an entry of endedGiveaways stays as it was written.
C29_EndedEntriesStay ==
    /\ []((DOMAIN activeGiveaways) \cap (DOMAIN endedGiveaways) = {})
    /\ [][\A m \in DOMAIN endedGiveaways :
            m \in DOMAIN endedGiveaways' /\ endedGiveaways'[m] = endedGiveaways[m]]_vars

\* C29 witness: a giveaway recorded in endedGiveaways has been rerolled.
C29_Witness ==
    /\ gev.op = "reroll"
    /\ gev.ret = "result"
    /\ gev.id \in DOMAIN endedGiveaways
    /\ gev.id \notin DOMAIN activeGiveaways

\* C1 witness: the end command has just removed an active giveaway.
C1_Witness ==
    /\ gev.op = "end"
    /\ gev.id \in DOMAIN ending
    /\ ending[gev.id].caller = "command"

(***************************************************************************)
(* Specification of the music bot's inactivity teardown: player events,    *)
(* the playerEmpty handler, the inactivity timers, 24/7 mode and autoplay. *)
(***************************************************************************)
\* The search of the autoplay branch returns no more tracks than fit MaxQueue.
PlayerEmptySearchedShort ==
    /\ PlayerEmptySearched
    /\ \A g \in Guilds : Len(players'[g].queue) <= MaxQueue

NextMusic ==
    \/ CreatePlayer
    \/ AddTrack
    \/ ToggleAutoplay
    \/ PlayerStart
    \/ PlayerEmpty
    \/ PlayerEmptyNotified
    \/ PlayerEmptySearchedShort
    \/ PlayerEmptyPlayed
    \/ InactivityTimerFires
    \/ Button247
    \/ ButtonLeave

InitMusic == MInit /\ GIdle /\ DIdle /\ LIdle /\ NIdle /\ PIdle /\ KIdle /\ EIdle /\ SIdle

SpecMusic == InitMusic /\ [][NextMusic]_vars

\* An awaited promise settles and a pending setTimeout callback runs.
SpecMusicLive ==
    /\ InitMusic
    /\ [][NextMusic]_vars
    /\ WF_vars(PlayerEmptyNotified)
    /\ WF_vars(PlayerEmptySearchedShort)
    /\ WF_vars(PlayerEmptyPlayed)
    /\ \A t \in TimerIds : WF_vars(FireInactivityTimer(t))

\* C33: when the autoplay search of a playerEmpty handler throws or returns no
\* tracks, the handler ends as it does with autoplay off: the players and
\* their queues stay as they are; with the guild's 24/7 flag set, or the text
\* channel unknown, no timer is set; otherwise one inactivity timer is set
\* for the guild and stored in inactivityTimeouts.
C33_FailedSearchAsNoAutoplay ==
    [][\A h \in emptyHandlers \ emptyHandlers' :
          (h.pc = "search" /\ mev'.op = "playerEmptyDone") =>
              /\ players' = players
              /\ IF h.guild \in twentyFourSeven \/ ~h.channel
                 THEN /\ pendingTimers' = pendingTimers
                      /\ inactivityTimeouts' = inactivityTimeouts
                 ELSE \E id \in TimerIds \ DOMAIN pendingTimers :
                         /\ DOMAIN pendingTimers' = (DOMAIN pendingTimers) \cup {id}
                         /\ \A t \in DOMAIN pendingTimers : pendingTimers'[t] = pendingTimers[t]
                         /\ pendingTimers'[id].guild = h.guild
                         /\ inactivityTimeouts' = MapSet(inactivityTimeouts, h.guild, id)]_vars

\* C33 witness: a playerEmpty handler of a guild with autoplay on and 24/7 mode
\* on has ended after its search, without a timer.
C33_Witness ==
    /\ mev.op = "playerEmptyDone"
    /\ ~mev.afterPlay
    /\ mev.call = "none"
    /\ mev.channel
    /\ mev.guild \in autoplay
    /\ mev.guild \in twentyFourSeven

\* C3: in every reachable state each guild has at most one pending inactivity
\* teardown timer.
C3_OneTimerPerGuild == \A g \in Guilds : Cardinality(TimersOf(g)) <= 1

\* C4: no inactivity timer scheduled before a playerStart of its guild fires
\* and destroys the player after that playerStart.
C4_StartCancelsTeardown == ~(mev.op = "inactivity" /\ mev.old /\ mev.destroyed)

\* The player of g is idle with 24/7 mode off.
StaysIdle(g) ==
    /\ players[g].exists
    /\ ~players[g].playing
    /\ players[g].queue = << >>
    /\ g \notin twentyFourSeven

\* C5: after a playerEmpty event of a guild with 24/7 mode off, the player
\* does not stay idle for ever: it is destroyed, unless a track starts or is
\* queued or 24/7 mode is switched on first.
C5_IdlePlayerDestroyed ==
    \A g \in Guilds :
        (mev.op = "playerEmpty" /\ mev.guild = g /\ g \notin twentyFourSeven)
            ~> ~StaysIdle(g)

\* The liveness C5 asks for holds of the players whose text channel is in the
\* client's channel cache when playerEmpty is handled.
IdlePlayerDestroyedIfChannelCached ==
    \A g \in Guilds :
        (mev.op = "playerEmpty" /\ mev.guild = g /\ g \notin twentyFourSeven
            /\ players[g].text)
            ~> ~StaysIdle(g)

\* C6: while 24/7 mode is set for a guild, the end of the playerEmpty handler
\* schedules no inactivity timer, and an inactivity timer that fires leaves
\* the guild's player as it is.
C6_NoTeardownIn247 ==
    [][\A g \in Guilds :
          (g \in twentyFourSeven /\ mev'.guild = g) =>
              /\ mev'.op = "inactivity" => players'[g] = players[g]
              /\ mev'.op = "playerEmptyDone" =>
                    /\ pendingTimers' = pendingTimers
                    /\ inactivityTimeouts' = inactivityTimeouts]_vars

\* C6 witness: an inactivity timer has fired on an idle player in 24/7 mode
\* and the player is still there.
C6_Witness ==
    /\ mev.op = "inactivity"
    /\ mev.guild \in twentyFourSeven
    /\ ~mev.destroyed
    /\ players[mev.guild].exists
    /\ ~players[mev.guild].playing
    /\ players[mev.guild].queue = << >>

\* C24: a guild has an entry in inactivityTimeouts exactly when an inactivity
\* timer of the guild is pending, and the entry is the handle of that timer.
C24_EntryIffTimerPending ==
    \A g \in Guilds :
        /\ g \in DOMAIN inactivityTimeouts <=> TimersOf(g) # {}
        /\ g \in DOMAIN inactivityTimeouts => inactivityTimeouts[g] \in TimersOf(g)

(***************************************************************************)
(* Specification of autoplay: the playerEmpty handler with searches of any *)
(* size, and the replay button, which pauses the player.                   *)
(***************************************************************************)
ReplayButton == \E g \in Guilds, member \in Members : Press(g, "replay", member, "same")

NextAutoplay ==
    \/ CreatePlayer
    \/ AddTrack
    \/ ToggleAutoplay
    \/ PlayerStart
    \/ PlayerEmpty
    \/ PlayerEmptyNotified
    \/ PlayerEmptySearched
    \/ PlayerEmptyPlayed
    \/ InactivityTimerFires
    \/ ReplayButton
    \/ ReplayTimerFires

SpecAutoplay == InitMusic /\ [][NextAutoplay]_vars

\* The step of a playerEmpty handler whose search returned at least one track.
AutoplayAdded == mev'.op = "playerEmptyPlay"
                 \/ (mev'.op = "playerEmptyAutoplay" /\ mev'.call = "queue.add")

\* Parts of C12 that do not depend on the outcome of play: the step that
\* handles a search result of at least one track lengthens no queue by more
\* than 5 tracks, calls play only on a player that is neither playing nor
\* paused, and schedules no inactivity timer.
AutoplayAddsBatch ==
    AutoplayAdded =>
        /\ \A g \in Guilds : Len(players'[g].queue) <= Len(players[g].queue) + 5
        /\ mev'.call = "play" => mev'.idle
        /\ pendingTimers' = pendingTimers
        /\ inactivityTimeouts' = inactivityTimeouts

\* C12: when the autoplay search returns at least one track, at most 5 tracks
\* are appended, play is called only on a player neither playing nor paused,
\* and the handler ends without scheduling an inactivity timer.
C12_AutoplayContinues ==
    [][/\ AutoplayAddsBatch
       /\ mev'.afterPlay =>
             (pendingTimers' = pendingTimers /\ inactivityTimeouts' = inactivityTimeouts)]_vars

\* C12 (amended): the same, where the handler ends without scheduling an
\* inactivity timer unless play throws; when play throws, the handler goes on
\* to the 24/7 check and the inactivity timer like a handler without autoplay.
C12_AutoplayContinuesUnlessPlayThrows ==
    [][/\ AutoplayAddsBatch
       /\ (mev'.op = "playerEmptyAutoplay" /\ mev'.call = "none") =>
             (pendingTimers' = pendingTimers /\ inactivityTimeouts' = inactivityTimeouts)
       /\ (mev'.afterPlay /\ pendingTimers' # pendingTimers) =>
             (mev'.guild \notin twentyFourSeven /\ mev'.channel)]_vars

\* C12 witness: a search returned more than 5 tracks, 5 of them were appended
\* to the empty queue and play was called.
C12_Witness ==
    /\ mev.op = "playerEmptyPlay"
    /\ mev.cut
    /\ mev.call = "play"
    /\ Len(players[mev.guild].queue) = 5

(***************************************************************************)
(* Specification of the music control buttons, with 24/7 mode and autoplay *)
(* (which no control button reads) left off.                               *)
(***************************************************************************)
NextControls ==
    \/ CreatePlayer
    \/ AddTrack
    \/ PlayerStart
    \/ PlayerEmpty
    \/ PlayerEmptyNotified
    \/ InactivityTimerFires
    \/ ReplayTimerFires
    \/ ButtonLeave
    \/ ControlButton

SpecControls == InitMusic /\ [][NextControls]_vars

\* The replies that turn a press away.
Refusals == {"noPlayer", "notInVoice", "notRequester", "noTrack", "nothingToShuffle"}

\* C7: a press of skip, replay, shuffle or stop calls a player method only
\* when the presser is the requester of the current track; any other press
\* leaves the players unchanged and is answered with a refusal.
C7_OnlyRequesterControls ==
    [][(mev'.op = "control" /\ mev'.button \in {"skip", "replay", "shuffle", "stop"}) =>
          /\ mev'.call # "none" => mev'.requester
          /\ ~mev'.requester => (players' = players /\ mev'.reply \in Refusals)]_vars

\* C8: a press of pauseresume by the requester of the current track, in the
\* player's voice channel, calls pause and flips the paused state.
C8_PauseResumeToggles ==
    [][(mev'.op = "control" /\ mev'.button = "pauseresume" /\ mev'.requester
          /\ mev'.voice = "same") =>
          /\ mev'.call = "pause"
          /\ players'[mev'.guild].paused = ~players[mev'.guild].paused]_vars

\* C9: a press of a control button by a member who is not in the player's
\* voice channel calls no player method and leaves the players unchanged.
C9_SameVoiceChannelOnly ==
    [][(mev'.op = "control" /\ mev'.voice # "same") =>
          (mev'.call = "none" /\ players' = players)]_vars

\* C26: an inactivity timer set for a player that has been destroyed since
\* (by the leave button or by an earlier timer) destroys nothing and sends no
\* 'Channel Left'; 'Channel Left' is sent only by a timer firing that destroys
\* a player.
C26_OrphanTimerDoesNothing ==
    /\ [][(mev'.op = "inactivity" /\ mev'.orphan) =>
            (~mev'.destroyed /\ mev'.reply # "Channel Left" /\ players' = players)]_vars
    /\ [][mev'.reply = "Channel Left" =>
            (/\ mev'.op = "inactivity"
             /\ players[mev'.guild].exists
             /\ ~players'[mev'.guild].exists)]_vars

\* C25: an inactivity timer that destroys a player finds it existing, not
\* playing, without a current track or with an empty queue, and with 24/7
\* mode off; it never destroys a player that is playing a track or is paused
\* on a current track.
C25_OnlyIdlePlayerDestroyed ==
    [][(mev'.op = "inactivity" /\ mev'.destroyed) =>
          LET p == players[mev'.guild]
          IN  /\ p.exists
              /\ ~p.playing
              /\ (p.current = NoTrack \/ p.queue = << >>)
              /\ mev'.guild \notin twentyFourSeven
              /\ ~(p.paused /\ p.current # NoTrack)]_vars

(***************************************************************************)
(* Specification of the now-playing messages: tracks start, end and run     *)
(* out while the playerStart handlers send their messages.  The playerEmpty *)
(* handler is followed up to the removal of the components; what it does    *)
(* next (notification, inactivity timer) is in the teardown specification.  *)
(***************************************************************************)
NextNowPlaying ==
    \/ CreatePlayer
    \/ AddTrack
    \/ PlayerStartMessage
    \/ PlayerStartCarded
    \/ PlayerStartSent
    \/ PlayerStartFallbackSent
    \/ PlayerEnd
    \/ PlayerEmptyStrips

SpecNowPlaying == InitMusic /\ [][NextNowPlaying]_vars

EntriesOf(g) == {e \in nowPlayingMessages : e.guild = g}

\* C19: nowPlayingMessages never holds two entries of one guild; the step in
\* which a playerStart handler has sent its now-playing message, by either
\* path, leaves the guild's entry holding the channel and the id of that
\* message; the playerEnd and playerEmpty handlers leave the Map as it was.
C19_EntryIsLastSent ==
    /\ [](\A g \in Guilds : Cardinality(EntriesOf(g)) <= 1)
    /\ [][mev'.op = "nowPlayingSent" =>
            \A e \in {x \in nowPlayingMessages' : x.guild = mev'.guild} :
                e.channelId = mev'.sentTo /\ e.messageId = mev'.sent]_vars
    /\ [][mev'.op = "nowPlayingSent" =>
            \E e \in nowPlayingMessages' : e.guild = mev'.guild]_vars
    /\ [][mev'.op \in {"playerEnd", "playerEmpty"} =>
            nowPlayingMessages' = nowPlayingMessages]_vars

\* C27: once the playerStart handlers of a guild have all finished, if the
\* track that started last has a now-playing message, the guild's entry in
\* nowPlayingMessages refers to that message.
C27_EntryIsLatestTrack ==
    \A g \in DOMAIN latestNowPlaying :
        (latestNowPlaying[g] # 0 /\ \A h \in startHandlers : h.guild # g) =>
            \A e \in EntriesOf(g) : e.messageId = latestNowPlaying[g]

\* C19 witness: the second now-playing message of a guild has been sent, to
\* another channel than the first, and has replaced the first in the Map.
C19_Witness ==
    /\ mev.op = "nowPlayingSent"
    /\ mev.sent = 2
    /\ nowPlayingMessages = {[guild |-> mev.guild, channelId |-> mev.sentTo, messageId |-> 2]}
    /\ 1 \in stripped

(***************************************************************************)
(* Specification of the /resume command: players are created, play, are     *)
(* paused by the replay button and resumed by its timer or by /resume.      *)
(***************************************************************************)
NextResume ==
    \/ CreatePlayer
    \/ AddTrack
    \/ PlayerStart
    \/ PlayerEmpty
    \/ PlayerEmptyNotified
    \/ InactivityTimerFires
    \/ ReplayButton
    \/ ReplayTimerFires
    \/ ResumeCommand

SpecResume == InitMusic /\ [][NextResume]_vars

ShuffleButton ==
    \E g \in Guilds, member \in Members, voice \in VoiceStates :
        Press(g, "shuffle", member, voice)

NextShuffle ==
    \/ CreatePlayer
    \/ AddTrackAnyRequester
    \/ PlayerStart
    \/ PlayerEnd
    \/ ShuffleButton

SpecShuffle == InitMusic /\ [][NextShuffle]_vars

\* How often track t occurs in the list s.
Occurrences(s, t) == Cardinality({i \in DOMAIN s : s[i] = t})

\* C34: an accepted press of the shuffle button only permutes: every track
\* occurs as often among the current track and the queue before the press as
\* it does after it, among the current track and the queue when the handler
\* does not skip and in the queue the skip takes the next track from when it
\* does; any other press of the button, one with an empty queue included,
\* leaves the players as they are.
C34_ShuffleOnlyPermutes ==
    [][(mev'.op = "control" /\ mev'.button = "shuffle") =>
          LET g == mev'.guild
              before == <<players[g].current>> \o players[g].queue
              after == IF mev'.call = "skip"
                       THEN players'[g].queue
                       ELSE <<players'[g].current>> \o players'[g].queue
          IN  IF mev'.reply = "shuffled"
              THEN \A t \in TracksAnyRequester : Occurrences(after, t) = Occurrences(before, t)
              ELSE players' = players]_vars

(***************************************************************************)
(* Specification of the stop button, its handler taken await by await.     *)
(***************************************************************************)
NextStop ==
    \/ CreatePlayer
    \/ AddTrack
    \/ PlayerStart
    \/ StopPress
    \/ StopSent
    \/ StopSignalled
    \/ StopDisconnected

SpecStop == InitMusic /\ [][NextStop]_vars

StopSteps == {"stopPress", "stopSent", "stopSignalled", "stopReply"}

\* C35: a press of the stop button by the requester of the current track
\* empties the player's queue, at once or when the handler resumes after the
\* queue-end message, sent or not; the handler replies once, after the queue
\* was emptied, whichever of its awaits failed; and no step of the handler
\* calls player.destroy or removes the player.
C35_StopClearsAndRepliesOnce ==
    [][mev'.op \in StopSteps =>
          LET g == mev'.guild
          IN  /\ (mev'.op = "stopPress" /\ mev'.requester) =>
                    \/ players'[g].queue = << >>
                    \/ \E h \in stopHandlers' \ stopHandlers : h.guild = g /\ h.pc = "send"
              /\ \A h \in stopHandlers \ stopHandlers' :
                    /\ h.pc = "send" =>
                          /\ players'[h.guild].queue = << >>
                          /\ \E k \in stopHandlers' \ stopHandlers : k.pc = "signal"
                    /\ mev'.op = "stopReply" => h.pc = "disconnect"
              /\ mev'.op = "stopReply" => mev'.replies = 1
              /\ mev'.op # "stopReply" => mev'.replies = 0 \/ mev'.reply # "none"
              /\ mev'.call # "destroy"
              /\ players'[g].exists = players[g].exists]_vars

\* C35 witness: the handler has replied after the queue-end message, the stop
\* signal and the voice disconnect all failed, and the queue is empty.
C35_Witness ==
    /\ mev.op = "stopReply"
    /\ mev.failures = StopAwaits
    /\ mev.replies = 1
    /\ players[mev.guild].queue = << >>

(***************************************************************************)
(* Specification of the 24/7 toggle, pressed in guilds with and without a  *)
(* player.                                                                 *)
(***************************************************************************)
Next247 ==
    \/ CreatePlayer
    \/ AddTrack
    \/ PlayerStart
    \/ PlayerEmpty
    \/ PlayerEmptyNotified
    \/ InactivityTimerFires
    \/ Button247
    \/ Button247Elsewhere

Spec247 == InitMusic /\ [][Next247]_vars

\* C36: a press of the 24/7 toggle by a member in a voice channel flips the
\* flag of the guild it was pressed in, so the second of two such presses in
\* a row in one guild brings the flag back to what it was before the first;
\* a press by a member in no voice channel leaves the flags as they are; and
\* no press changes the flag of another guild, an inactivity timer or a
\* player.
C36_ToggleFlipsOwnFlag ==
    [][mev'.op = "247toggle" =>
          LET g == mev'.guild
          IN  /\ IF mev'.voice = "none"
                 THEN twentyFourSeven' = twentyFourSeven
                 ELSE /\ (g \in twentyFourSeven') <=> (g \notin twentyFourSeven)
                      /\ twentyFourSeven' \ {g} = twentyFourSeven \ {g}
              /\ (/\ mev.op = "247toggle" /\ mev.guild = g
                  /\ mev.voice # "none" /\ mev'.voice # "none") =>
                    ((g \in twentyFourSeven') <=> mev.was)
              /\ UNCHANGED <<players, inactivityTimeouts, pendingTimers>>]_vars

\* C36 witness: with an inactivity timer pending and 24/7 mode on in another
\* guild, a second press in a row has switched the guild's 24/7 mode off again.
C36_Witness ==
    /\ mev.op = "247toggle"
    /\ mev.guild = "g1"
    /\ mev.reply = "disabled"
    /\ mev.was
    /\ "g1" \notin twentyFourSeven
    /\ "g2" \in twentyFourSeven
    /\ pendingTimers # << >>

(***************************************************************************)
(* Specification of the player error handlers.                             *)
(***************************************************************************)
NextRecovery ==
    \/ CreatePlayer
    \/ AddTrack
    \/ PlayerStart
    \/ PlayerException
    \/ PlayerError
    \/ ErrorTimerFires
    \/ CreateTimerFires

SpecRecovery == InitMusic /\ [][NextRecovery]_vars

\* C31: a playerException attempts recovery exactly when its message contains
\* neither 'destroyed' nor 'not found' and contains 'Track stuck', 'load
\* failed', 'Connection' or 'WebSocket'; an attempted recovery skips the player
\* when its queue is not empty and destroys it otherwise, and destroys it
\* when the skip fails.
C31_RecoveryOnException ==
    [][mev'.op = "playerException" =>
          LET c == mev'.contains
              g == mev'.guild
              due == /\ mev'.message
                     /\ "destroyed" \notin c /\ "not found" \notin c
                     /\ c \cap {"Track stuck", "load failed", "Connection", "WebSocket"} # {}
          IN  /\ (mev'.recovery # "none") <=> due
              /\ ~due => players' = players
              /\ due =>
                    IF Len(players[g].queue) > 0
                    THEN /\ mev'.recovery = "skip"
                         /\ IF mev'.outcome = "resolved"
                            THEN players' = players
                            ELSE ~players'[g].exists
                    ELSE /\ mev'.recovery = "destroy"
                         /\ ~players'[g].exists]_vars

InitLavalink == LInit /\ GIdle /\ DIdle /\ MIdle /\ NIdle /\ PIdle /\ KIdle /\ EIdle /\ SIdle

SpecLavalink == InitLavalink /\ [][NextLavalink]_vars

\* A pending timer callback runs.
SpecLavalinkLive ==
    /\ InitLavalink
    /\ [][NextLavalink]_vars
    /\ \A d \in Delays : WF_vars(FireReconnectTimer(d))

\* C11: every 'error' event with a message is eventually followed by the
\* reconnect call of a timer of the delay it scheduled, however many reconnect
\* calls were made or threw before; and an 'error' event with a message that
\* comes right after a reconnect call, thrown or not, schedules its timer.
C11_NoRetryBudget ==
    /\ \A d \in Delays :
          (lev.op = "error" /\ lev.message /\ lev.scheduled = <<d>>)
              ~> (lev.op = "timer" /\ lev.delay = d)
    /\ [][(lev.op = "timer" /\ lev'.op = "error" /\ lev'.message) =>
            /\ lev'.scheduled # << >>
            /\ reconnectTimers'[lev'.scheduled[1]] = reconnectTimers[lev'.scheduled[1]] + 1]_vars

\* C11 witness: a reconnect call is made after earlier reconnect calls threw.
C11_Witness ==
    /\ lev.op = "timer"
    /\ lev.reconnect = "called"
    /\ lev.threwBefore

\* The delay C10 states for a message containing the markers in `contains`.
C10_Delay(contains) ==
    IF "AbortError" \in contains THEN 5000
    ELSE IF "ECONNREFUSED" \in contains \/ "Connection refused" \in contains THEN 15000
    ELSE IF "Transport failed" \in contains \/ "Connection reset" \in contains THEN 7500
    ELSE 10000

\* C10: an 'error' event whose error has a message adds exactly one reconnect
\* timer, with the delay keyed by the message (AbortError 5000, else refused
\* 15000, else transport/reset 7500, else 10000) and touches no other timer;
\* an 'error' event without a message leaves the pending timers as they are.
C10_ErrorSchedulesOneReconnect ==
    [][lev'.op = "error" =>
          IF lev'.message
          THEN reconnectTimers' = [reconnectTimers EXCEPT ![C10_Delay(lev'.contains)] = @ + 1]
          ELSE reconnectTimers' = reconnectTimers]_vars

\* C10 witness: an error whose message contains both 'Connection refused' and
\* 'Connection reset' has scheduled its reconnect after 15000 ms.
C10_Witness ==
    /\ lev.op = "error"
    /\ lev.message
    /\ {"Connection refused", "Connection reset"} \subseteq lev.contains
    /\ "AbortError" \notin lev.contains
    /\ reconnectTimers[15000] > 0

\* C30: a 'close' event adds one reconnect timer of 5000 ms exactly when its
\* code is not 1000 and is below 4000, and otherwise leaves the timers alone; a
\* 'disconnect' event with moved set leaves the timers alone and disconnects
\* no player; one without moved disconnects every listed player and adds
\* exactly one reconnect timer of 5000 ms.
C30_CloseAndDisconnect ==
    [][/\ lev'.op = "close" =>
             IF lev'.code # 1000 /\ lev'.code < 4000
             THEN reconnectTimers' = [reconnectTimers EXCEPT ![5000] = @ + 1]
             ELSE reconnectTimers' = reconnectTimers
       /\ lev'.op = "disconnect" =>
             IF lev'.moved
             THEN /\ reconnectTimers' = reconnectTimers
                  /\ lev'.disconnected = {}
             ELSE /\ reconnectTimers' = [reconnectTimers EXCEPT ![5000] = @ + 1]
                  /\ lev'.disconnected = lev'.listed]_vars

\* C30 witness: a 'disconnect' event without moved has disconnected the players
\* it was handed and scheduled its reconnect while another one was pending.
C30_Witness ==
    /\ lev.op = "disconnect"
    /\ ~lev.moved
    /\ lev.listed = NodePlayers
    /\ lev.disconnected = NodePlayers
    /\ reconnectTimers[5000] = 2

(***************************************************************************)
(* THE WINNER DRAW, as a function of the fetched reactors and the          *)
(* configured winner count.                                                *)
(***************************************************************************)
\* The winner counts a start command can store in a giveaway.
ConfigurableWinners == {w \in WinnerCounts : \E form \in Forms : ValidWinners(form, w)}

\* Every list of winners a draw can produce from the fetched reactors.
Draws(fetched, w) == UNION {PickWinners(parts, w, 0) : parts \in Participants(fetched)}

\* winners.length > 0 ? winners.join(', ') : 'No valid participants'
WinnerText(winners) == IF Len(winners) > 0 THEN "winners" ELSE "No valid participants"

DInit ==
    /\ reactors \in (SUBSET Users) \ {{}}
    /\ configured \in ConfigurableWinners
    /\ drawn = NoDraw

\* endGiveaway: participants, the winner loop and winnerText.
DrawEnd ==
    /\ \E winners \in Draws(reactors, configured) :
          drawn' = [by |-> "endGiveaway", winners |-> winners, text |-> WinnerText(winners)]
    /\ UNCHANGED <<reactors, configured>>
    /\ UNCHANGED <<gvars, lvars, mvars, nvars, pvars, kvars, evars, svars>>

\* rerollGiveaway: participants and the winner loop; winnerText in the reroll command.
DrawReroll ==
    /\ \E winners \in Draws(reactors, configured) :
          drawn' = [by |-> "rerollGiveaway", winners |-> winners, text |-> WinnerText(winners)]
    /\ UNCHANGED <<reactors, configured>>
    /\ UNCHANGED <<gvars, lvars, mvars, nvars, pvars, kvars, evars, svars>>

NextDraw ==
    \/ DrawEnd
    \/ DrawReroll

InitDraw == DInit /\ GIdle /\ LIdle /\ MIdle /\ NIdle /\ PIdle /\ KIdle /\ EIdle /\ SIdle

SpecDraw == InitDraw /\ [][NextDraw]_vars

NonBots(fetched) == {u \in fetched : ~IsBot(u)}

\* C2: every draw of endGiveaway and rerollGiveaway picks non-bot reactors only,
\* picks nobody twice, picks min(w, number of non-bot reactors) winners, and
\* shows 'No valid participants' exactly when there is no winner.
C2_DrawWithoutReplacement ==
    drawn.by # "none" =>
        /\ \A i \in 1..Len(drawn.winners) : drawn.winners[i] \in NonBots(reactors)
        /\ \A i, j \in 1..Len(drawn.winners) : drawn.winners[i] = drawn.winners[j] => i = j
        /\ Len(drawn.winners) = Min(configured, Cardinality(NonBots(reactors)))
        /\ (drawn.text = "No valid participants") <=> (Len(drawn.winners) = 0)

(***************************************************************************)
(* POLL BOT: the /poll command                                             *)
(***************************************************************************)
MaxSupplied == 3    \* choice options one /poll command is given

\* for (let i = 0; i < 20; i++): the options choice_a .. choice_t
NumChoices == 20

Positions == 0..(NumChoices - 1)

emojiMap == <<"A", "B", "C", "D", "E", "F", "G", "H", "I", "J",
              "K", "L", "M", "N", "O", "P", "Q", "R", "S", "T">>

\* The values an option is given; getString returns null for an option that
\* is not supplied, which is a position outside the DOMAIN here.
ChoiceValues == {"", "tea"}

RECURSIVE PositionSets(_)
PositionSets(n) ==
    IF n = 0 THEN {{}}
    ELSE LET S == PositionSets(n - 1)
         IN  S \cup {s \cup {i} : s \in S, i \in Positions}

\* The option sets a /poll command arrives with.
PollInputs == UNION {[S -> ChoiceValues] : S \in PositionSets(MaxSupplied)}

\* The emoji of a choice taken by its rank among the choices pushed so far.
ChoiceEmojiByRank(i, choices) == emojiMap[Len(choices) + 1]

\* emojiMap[i] of line 1817 (sequences are 1-based)
ChoiceEmoji(i, choices) == emojiMap[i + 1]

\* The loop of lines 1814-1818 from position i on, `choices` being the array so far.
RECURSIVE CollectChoices(_, _, _)
CollectChoices(opts, i, choices) ==
    IF i >= NumChoices THEN choices
    ELSE IF i \in DOMAIN opts /\ opts[i] # ""
    THEN CollectChoices(opts, i + 1,
             Append(choices, [emoji |-> ChoiceEmoji(i, choices), label |-> opts[i]]))
    ELSE CollectChoices(opts, i + 1, choices)

\* The multi-choice test with one choice being enough.
IsMultiChoiceFromOne(choices) == Len(choices) >= 1

\* choices.length >= 2 (1829, 1841)
IsMultiChoice(choices) == Len(choices) >= 2

YesNoFields == << <<"thumbsup", "Yes">>, <<"thumbsdown", "No">> >>

\* fieldContent, one <<emoji, label>> per line
FieldContent(choices) ==
    IF IsMultiChoice(choices)
    THEN [k \in 1..Len(choices) |-> <<choices[k].emoji, choices[k].label>>]
    ELSE YesNoFields

\* The emoji the handler reacts with after the reply, in the order of its calls.
ReactionPlan(choices) ==
    IF IsMultiChoice(choices)
    THEN [k \in 1..Len(choices) |-> choices[k].emoji]
    ELSE <<"thumbsup", "thumbsdown">>

\* The /poll handler up to `await interaction.reply`; replyOk: the reply is sent.
PollCommand ==
    /\ pollPc = "idle"
    /\ \E opts \in PollInputs, replyOk \in BOOLEAN :
          LET choices == CollectChoices(opts, 0, << >>)
          IN  /\ pollOptions' = opts
              /\ pollChoices' = choices
              /\ pollReactions' = << >>
              /\ IF replyOk
                 THEN /\ pollFields' = FieldContent(choices)
                      /\ pollPc' = "react"
                 ELSE /\ pollFields' = << >>
                      /\ pollPc' = "replyFailed"
    /\ UNCHANGED <<gvars, dvars, lvars, mvars, nvars, kvars, evars, svars>>

\* One `await reply.react(..)` of lines 1841-1846; ok: the reaction is added.
PollReact ==
    /\ pollPc = "react"
    /\ \E ok \in BOOLEAN :
          LET plan == ReactionPlan(pollChoices)
              next == plan[Len(pollReactions) + 1]
          IN  IF ok
              THEN /\ pollReactions' = Append(pollReactions, next)
                   /\ pollPc' = IF Len(pollReactions) + 1 = Len(plan) THEN "done" ELSE "react"
              ELSE /\ pollPc' = "reactFailed"
                   /\ UNCHANGED pollReactions
    /\ UNCHANGED <<pollOptions, pollChoices, pollFields>>
    /\ UNCHANGED <<gvars, dvars, lvars, mvars, nvars, kvars, evars, svars>>

\* The handler has returned or thrown; the next interaction finds nothing of it.
PollReturn ==
    /\ pollPc \in {"done", "replyFailed", "reactFailed"}
    /\ pollPc' = "idle"
    /\ pollOptions' = << >>
    /\ pollChoices' = << >>
    /\ pollFields' = << >>
    /\ pollReactions' = << >>
    /\ UNCHANGED <<gvars, dvars, lvars, mvars, nvars, kvars, evars, svars>>

NextPoll ==
    \/ PollCommand
    \/ PollReact
    \/ PollReturn

InitPoll == PIdle /\ GIdle /\ DIdle /\ LIdle /\ MIdle /\ NIdle /\ KIdle /\ EIdle /\ SIdle

SpecPoll == InitPoll /\ [][NextPoll]_vars

\* The positions supplied with a non-empty value.
Supplied == {i \in DOMAIN pollOptions : pollOptions[i] # ""}

\* The k-th smallest supplied position.
SuppliedAt(k) == CHOOSE i \in Supplied : Cardinality({j \in Supplied : j < i}) = k - 1

Replied == pollPc \in {"react", "done", "reactFailed"}

\* C16: with two or more non-empty choices the reply shows exactly the supplied
\* options in ascending position order, the option at position i with the i-th
\* regional-indicator emoji and its own value; the reactions added so far are
\* the emoji of the lowest supplied positions in ascending order, one each,
\* and all of them once the handler is done.
C16_EmojiByPosition ==
    (Replied /\ Cardinality(Supplied) >= 2) =>
        /\ Len(pollFields) = Cardinality(Supplied)
        /\ \A k \in 1..Len(pollFields) :
              pollFields[k] = <<emojiMap[SuppliedAt(k) + 1], pollOptions[SuppliedAt(k)]>>
        /\ Len(pollReactions) <= Cardinality(Supplied)
        /\ \A k \in 1..Len(pollReactions) :
              pollReactions[k] = emojiMap[SuppliedAt(k) + 1]
        /\ pollPc = "done" => Len(pollReactions) = Cardinality(Supplied)

\* C16 witness: a finished poll whose supplied positions skip the first option,
\* leave a gap and include the last one.
C16_Witness ==
    /\ pollPc = "done"
    /\ Cardinality(Supplied) >= 2
    /\ 0 \notin Supplied
    /\ NumChoices - 1 \in Supplied
    /\ \E i \in Positions : i \notin Supplied /\ \E j \in Supplied : j < i
    /\ Len(pollReactions) = Cardinality(Supplied)

\* C17: with no or one non-empty choice the reply lists Yes and No only, the
\* reactions added are thumbs-up then thumbs-down and nothing else, and both
\* once the handler is done.
C17_YesNoFallback ==
    (Replied /\ Cardinality(Supplied) < 2) =>
        /\ pollFields = YesNoFields
        /\ Len(pollReactions) <= 2
        /\ \A k \in 1..Len(pollReactions) :
              pollReactions[k] = <<"thumbsup", "thumbsdown">>[k]
        /\ pollPc = "done" => pollReactions = <<"thumbsup", "thumbsdown">>

\* C17 witness: a finished poll that was given exactly one non-empty choice.
C17_Witness ==
    /\ pollPc = "done"
    /\ Cardinality(Supplied) = 1
    /\ pollReactions = <<"thumbsup", "thumbsdown">>

(***************************************************************************)
(* KEEP-ALIVE: the express server each bot answers GET / with              *)
(***************************************************************************)
\* client.user.username of a logged-in bot
UserNames == {"Gifty", "Prizes"}

\* The bots that call client.login (1246, 1735); the poll bot's part has no login.
LoginBots == {"music", "giveaway"}

LoggedIn(bot) == clientUser[bot] # "null" /\ bot \notin exited

\* Every bot answering the string of the music bot.
KeepAliveBodyShared(bot, user) == <<"Bot is running!">>

\* The body res.send is given, as the parts of the string: 1287 (music),
\* 1732 (giveaway, a template string over client.user?.username), 1850 (poll).
KeepAliveBody(bot, user) ==
    CASE bot = "music" -> <<"Bot is running!">>
      [] bot = "giveaway" -> <<IF user # "null" THEN user ELSE "Giveaway Bot", " is running!">>
      [] bot = "poll" -> <<"Bot is online">>

\* client.login resolves: client.user is set; the giveaway bot starts to listen.
LoginSucceeds ==
    \E bot \in LoginBots, name \in UserNames :
        /\ clientUser[bot] = "null"
        /\ bot \notin exited
        /\ clientUser' = [clientUser EXCEPT ![bot] = name]
        /\ listening' = IF bot = "giveaway" THEN listening \cup {bot} ELSE listening
        /\ UNCHANGED <<exited, served>>
        /\ UNCHANGED <<gvars, dvars, lvars, mvars, nvars, pvars, evars, svars>>

\* client.login rejects: process.exit(1).
LoginFails ==
    \E bot \in LoginBots :
        /\ clientUser[bot] = "null"
        /\ bot \notin exited
        /\ exited' = exited \cup {bot}
        /\ listening' = listening \ {bot}
        /\ UNCHANGED <<clientUser, served>>
        /\ UNCHANGED <<gvars, dvars, lvars, mvars, nvars, pvars, evars, svars>>

\* The bot's account is renamed: the library updates client.user.username.
UserUpdate ==
    \E bot \in LoginBots, name \in UserNames :
        /\ LoggedIn(bot)
        /\ name # clientUser[bot]
        /\ clientUser' = [clientUser EXCEPT ![bot] = name]
        /\ UNCHANGED <<exited, listening, served>>
        /\ UNCHANGED <<gvars, dvars, lvars, mvars, nvars, pvars, evars, svars>>

\* GET / on a listening server.
KeepAliveGet ==
    \E bot \in listening :
        /\ served' = [served EXCEPT ![bot] = KeepAliveBody(bot, clientUser[bot])]
        /\ UNCHANGED <<clientUser, exited, listening>>
        /\ UNCHANGED <<gvars, dvars, lvars, mvars, nvars, pvars, evars, svars>>

\* The giveaway bot handles commands and timers once it is logged in.
GiveawayRuns == LoggedIn("giveaway") /\ NextGiveaway

NextKeepAlive ==
    \/ LoginSucceeds
    \/ LoginFails
    \/ UserUpdate
    \/ KeepAliveGet
    \/ GiveawayRuns

SpecKeepAlive == InitGiveaway /\ [][NextKeepAlive]_vars

\* C20: the body a bot's keep-alive endpoint answers never differs from the
\* body it answered before.
C20_StaticBody ==
    [][\A bot \in Bots : served[bot] # << >> => served'[bot] = served[bot]]_vars

\* C20 amended: the music bot and the poll bot answer one fixed string each;
\* the giveaway bot answers its current user name followed by ' is running!',
\* whatever its maps hold.
C20_StaticExceptGiveaway ==
    /\ [](served["music"] \in {<< >>, <<"Bot is running!">>})
    /\ [](served["poll"] \in {<< >>, <<"Bot is online">>})
    /\ [][served'["giveaway"] # served["giveaway"] =>
            /\ clientUser["giveaway"] \in UserNames
            /\ served'["giveaway"] = <<clientUser["giveaway"], " is running!">>]_vars

\* C20 witness: all three endpoints have answered, the giveaway bot's while a
\* giveaway is active and under another name than it has now.
C20_Witness ==
    /\ served["music"] # << >>
    /\ served["poll"] # << >>
    /\ served["giveaway"] # << >>
    /\ served["giveaway"][1] # clientUser["giveaway"]
    /\ activeGiveaways # << >>

====
